---- MODULE Spec2Model ----
(***************************************************************************)
(* bingers: the progress store (src/src/user_data.rs) and the value types  *)
(* it stores (src/src/tvmaze_api.rs), as a state machine.  The state is    *)
(* the in-memory UserDataV1 document; every action is one public operation *)
(* of UserData applied to it.  The catalog client (make_get_request,       *)
(* get_shows, get_episodes) and the commands of src/src/app.rs, one per    *)
(* run of the program, are further specifications over the same state.     *)
(*                                                                         *)
(* Fields that no operation ever reads (the display name, language,        *)
(* network, web channel, runtime and schedule of a show; the name and      *)
(* runtime of an episode) are copied verbatim by update_show and           *)
(* update_episode; `status` stands for them on a show and `airstamp` on an *)
(* episode.                                                                *)
(***************************************************************************)
EXTENDS Integers, Sequences, FiniteSets, TLC

(***************************************************************************)
(* Bounds of the model.                                                    *)
(***************************************************************************)
\* Episodes the catalog lists in season 1 of The Orville.
MaxNumber == 2
\* Largest value of a show's `updated` marker served by the catalog.
MaxUpdated == 1

(***************************************************************************)
(* Program constants: the ids of the two shows of the test fixtures.       *)
(***************************************************************************)
StarTrekDiscoveryId == 7480
TheOrvilleId == 20263

ShowIds == {StarTrekDiscoveryId, TheOrvilleId}

\* Option<T>
None == <<>>
Some(x) == <<x>>

(***************************************************************************)
(* Value types (tvmaze_api.rs).                                            *)
(***************************************************************************)
Show(id, status, last_updated) ==
    [id |-> id, status |-> status, last_updated |-> last_updated,
     last_watched_episode |-> <<0, 0>>]

Episode(show_id, season, number) ==
    [episode_id |-> (IF show_id = TheOrvilleId THEN 1000 ELSE 2000)
                        + 100 * season + number,
     show_id |-> show_id, season |-> season, number |-> number,
     airstamp |-> Some(10 * season + number), watched |-> FALSE]

\* impl Ord for Show: by id.
show_cmp_less(a, b) == a.id < b.id

\* impl PartialEq for Show: by id.
show_eq(a, b) == a.id = b.id

\* impl Ord for Episode: by (show_id, season, number).
episode_cmp_less(a, b) ==
    IF a.show_id = b.show_id
    THEN IF a.season = b.season
         THEN a.number < b.number
         ELSE a.season < b.season
    ELSE a.show_id < b.show_id

\* impl PartialEq for Episode: by (episode_id, show_id).
episode_eq(a, b) == a.episode_id = b.episode_id /\ a.show_id = b.show_id

(***************************************************************************)
(* What the catalog can serve.  The first two episodes of The Orville are  *)
(* also served with their numbers swapped, the change update_episode       *)
(* reports as "Changed from being season .. episode .. to season ..".      *)
(***************************************************************************)
Statuses == {"Running", "Ended"}

\* The show the user subscribes to, as first served.  (Star Trek: Discovery
\* stays unsubscribed here: its episode is in the list of a store that does
\* not hold its show.)
Shows == {Show(TheOrvilleId, "Running", 0)}

\* Every revision of the shows' metadata, with the last watched episode the
\* user names on subscribing (app.rs: show.last_watched_episode = ..).
ShowRevisions ==
    {[Show(id, st, u) EXCEPT !.last_watched_episode = p] :
        id \in ShowIds, st \in Statuses, u \in 0..MaxUpdated,
        p \in {<<0, 0>>, <<1, 1>>}}

CatalogEpisodes ==
    {Episode(TheOrvilleId, 1, n) : n \in 1..MaxNumber}
        \cup {Episode(TheOrvilleId, 2, 1), Episode(StarTrekDiscoveryId, 1, 1)}

RenumberedEpisodes ==
    {[Episode(TheOrvilleId, 1, 1) EXCEPT !.number = 2],
     [Episode(TheOrvilleId, 1, 2) EXCEPT !.number = 1]}

Episodes == CatalogEpisodes \cup RenumberedEpisodes

\* The vectors handed to add_episodes: one episode, or the same episode
\* twice.  (A vector of two different episodes leaves the store as the two
\* vectors of one episode each do, one after the other.)
Batches == {<<e>> : e \in Episodes} \cup {<<e, e>> : e \in Episodes}

Seasons == {1, 2}
Numbers == 1..MaxNumber

\* The (season, episode) arguments of mark_as_watched.
MarkArguments ==
    {<<None, None>>}
        \cup {<<Some(s), None>> : s \in Seasons}
        \cup {<<Some(s), Some(n)>> : s \in Seasons, n \in Numbers}
        \cup {<<None, Some(n)>> : n \in Numbers}

(***************************************************************************)
(* Helpers on vectors.                                                     *)
(***************************************************************************)
Range(seq) == {seq[i] : i \in 1..Len(seq)}

\* slice::sort for Vec<Episode>: stable, by impl Ord for Episode.  An element
\* is put behind every element that is not greater than it.
RECURSIVE insert_episode(_, _)
insert_episode(sorted, episode) ==
    IF sorted = <<>>
    THEN <<episode>>
    ELSE LET n == Len(sorted)
         IN  IF episode_cmp_less(episode, sorted[n])
             THEN Append(insert_episode(SubSeq(sorted, 1, n - 1), episode),
                         sorted[n])
             ELSE Append(sorted, episode)

RECURSIVE sort_episodes(_)
sort_episodes(seq) ==
    IF seq = <<>>
    THEN <<>>
    ELSE LET n == Len(seq)
         IN  insert_episode(sort_episodes(SubSeq(seq, 1, n - 1)), seq[n])

\* slice::sort for Vec<Show>: stable, by impl Ord for Show.
RECURSIVE insert_show(_, _)
insert_show(sorted, show) ==
    IF sorted = <<>>
    THEN <<show>>
    ELSE LET n == Len(sorted)
         IN  IF show_cmp_less(show, sorted[n])
             THEN Append(insert_show(SubSeq(sorted, 1, n - 1), show),
                         sorted[n])
             ELSE Append(sorted, show)

\* Faulty variant of sort_shows: the vector is left in the order of the
\* pushes.  C39 tells the two apart.
shows_as_pushed(seq) == seq

RECURSIVE sort_shows(_)
sort_shows(seq) ==
    IF seq = <<>>
    THEN <<>>
    ELSE LET n == Len(seq)
         IN  insert_show(sort_shows(SubSeq(seq, 1, n - 1)), seq[n])

\* Vec::contains, by PartialEq.
contains_show(seq, show) == \E i \in 1..Len(seq) : show_eq(seq[i], show)
contains_episode(seq, episode) ==
    \E i \in 1..Len(seq) : episode_eq(seq[i], episode)

(***************************************************************************)
(* user_data.rs                                                            *)
(***************************************************************************)
\* Faulty variant of episode_is_greater_than: every episode counts as lying
\* beyond the pointer.  C1 tells the two apart.
episode_is_always_greater(episode, episode_number) == TRUE

episode_is_greater_than(episode, episode_number) ==
    IF episode.season = episode_number[1]
    THEN episode.number > episode_number[2]
    ELSE episode.season > episode_number[1]

episode_is_less_than(episode, episode_number) ==
    IF episode.season = episode_number[1]
    THEN episode.number < episode_number[2]
    ELSE episode.season < episode_number[1]

\* Faulty variant of add_show: pushes without asking contains().  C6 tells
\* the two apart.
add_show_unchecked(shows, show) == sort_shows(Append(shows, show))

add_show(shows, show) ==
    IF ~contains_show(shows, show)
    THEN sort_shows(Append(shows, show))
    ELSE shows

\* Faulty variant of the loop of add_episodes: pushes without asking
\* contains().  C5 tells the two apart.
push_all_episodes(eps, batch) == eps \o batch

RECURSIVE push_new_episodes(_, _)
\* The loop of add_episodes: push every episode the vector does not contain yet.
push_new_episodes(eps, batch) ==
    IF batch = <<>>
    THEN eps
    ELSE push_new_episodes(
            IF ~contains_episode(eps, Head(batch))
            THEN Append(eps, Head(batch))
            ELSE eps,
            Tail(batch))

\* Faulty variant of add_episodes: an episode already stored is replaced by
\* the one handed in.  C7 tells the two apart.
add_episodes_replacing(eps, batch) ==
    LET stale(episode) == ~contains_episode(batch, episode)
    IN  sort_episodes(push_new_episodes(SelectSeq(eps, stale), batch))

add_episodes(eps, batch) ==
    LET pushed == push_new_episodes(eps, batch)
        episode_added == Len(pushed) # Len(eps)
    IN  IF episode_added THEN sort_episodes(pushed) ELSE pushed

\* Faulty variant of remove_episodes: every episode is kept.  C31 tells the
\* two apart.
keep_episodes(eps, show) == eps

\* Faulty variant of remove_episodes: the episodes flagged watched are kept.
\* C26 tells the two apart.
remove_unwatched_episodes(eps, show) ==
    LET keep(episode) == episode.show_id # show.id \/ episode.watched
    IN  SelectSeq(eps, keep)

remove_episodes(eps, show) ==
    LET keep(episode) == episode.show_id # show.id
    IN  SelectSeq(eps, keep)

remove_show(shows, show) ==
    LET keep(subscribed_show) == ~show_eq(subscribed_show, show)
    IN  SelectSeq(shows, keep)

(***************************************************************************)
(* The three mark steps.  Each yields the vector after the step and the    *)
(* (season, number) it returns.                                            *)
(***************************************************************************)
mark_next_episode_as_watched(eps, show_id) ==
    LET matches == {i \in 1..Len(eps) :
                        eps[i].show_id = show_id /\ ~eps[i].watched}
    IN  IF matches = {}
        THEN [eps |-> eps, marked |-> None]
        ELSE LET first == CHOOSE i \in matches : \A j \in matches : i <= j
             IN  [eps |-> [eps EXCEPT ![first].watched = TRUE],
                  marked |-> Some(<<eps[first].season, eps[first].number>>)]

\* Faulty variant of mark_episode_as_watched: the filter on the watched flag
\* is left out.  C33 tells the two apart.
mark_episode_again(eps, show_id, season, number) ==
    LET matches == {i \in 1..Len(eps) :
                        /\ eps[i].show_id = show_id
                        /\ eps[i].season = season
                        /\ eps[i].number = number}
    IN  IF matches = {}
        THEN [eps |-> eps, marked |-> None]
        ELSE LET last_match == CHOOSE i \in matches : \A j \in matches : j <= i
             IN  [eps |-> [i \in 1..Len(eps) |->
                             IF i \in matches
                             THEN [eps[i] EXCEPT !.watched = TRUE]
                             ELSE eps[i]],
                  marked |-> Some(<<eps[last_match].season,
                                    eps[last_match].number>>)]

mark_episode_as_watched(eps, show_id, season, number) ==
    LET matches == {i \in 1..Len(eps) :
                        /\ eps[i].show_id = show_id
                        /\ eps[i].season = season
                        /\ eps[i].number = number
                        /\ ~eps[i].watched}
    IN  IF matches = {}
        THEN [eps |-> eps, marked |-> None]
        ELSE LET last_match == CHOOSE i \in matches : \A j \in matches : j <= i
             IN  [eps |-> [i \in 1..Len(eps) |->
                             IF i \in matches
                             THEN [eps[i] EXCEPT !.watched = TRUE]
                             ELSE eps[i]],
                  marked |-> Some(<<eps[last_match].season,
                                    eps[last_match].number>>)]

mark_season_as_watched(eps, show_id, season) ==
    LET matches == {i \in 1..Len(eps) :
                        /\ eps[i].show_id = show_id
                        /\ eps[i].season = season
                        /\ ~eps[i].watched}
    IN  IF matches = {}
        THEN [eps |-> eps, marked |-> None]
        ELSE LET last_match == CHOOSE i \in matches : \A j \in matches : j <= i
             IN  [eps |-> [i \in 1..Len(eps) |->
                             IF i \in matches
                             THEN [eps[i] EXCEPT !.watched = TRUE]
                             ELSE eps[i]],
                  marked |-> Some(<<eps[last_match].season,
                                    eps[last_match].number>>)]

\* Faulty variant of the match of mark_as_watched: an episode without a
\* season marks the next episode.  C11 tells the two apart.
mark_step_lenient(eps, show_id, season, episode) ==
    IF season # None /\ episode = None
    THEN mark_season_as_watched(eps, show_id, season[1])
    ELSE IF season # None /\ episode # None
    THEN mark_episode_as_watched(eps, show_id, season[1], episode[1])
    ELSE mark_next_episode_as_watched(eps, show_id)

\* The match of mark_as_watched over (season, episode).
mark_step(eps, show_id, season, episode) ==
    IF season # None /\ episode = None
    THEN mark_season_as_watched(eps, show_id, season[1])
    ELSE IF season # None /\ episode # None
    THEN mark_episode_as_watched(eps, show_id, season[1], episode[1])
    ELSE IF season = None /\ episode = None
    THEN mark_next_episode_as_watched(eps, show_id)
    ELSE [eps |-> eps, marked |-> None]

\* Faulty variant of find_last_watched: the filter on the id is left out, the
\* last show of the vector wins.  C32 tells the two apart.
find_last_watched_of_any(shows, show_id) ==
    IF shows = <<>>
    THEN [last_watched |-> <<0, 0>>, show_index |-> None]
    ELSE [last_watched |-> shows[Len(shows)].last_watched_episode,
          show_index |-> Some(Len(shows))]

\* The loop that finds the show: the last match wins; (0, 0) and no index
\* when the show is not subscribed.
find_last_watched(shows, show_id) ==
    LET matches == {i \in 1..Len(shows) : shows[i].id = show_id}
    IN  IF matches = {}
        THEN [last_watched |-> <<0, 0>>, show_index |-> None]
        ELSE LET i == CHOOSE i \in matches : \A j \in matches : j <= i
             IN  [last_watched |-> shows[i].last_watched_episode,
                  show_index |-> Some(i)]

\* Faulty variant of has_gap: never reports a gap.  C2 tells the two apart.
has_no_gap(eps, show_id, last_watched, last_marked) == FALSE

\* Are there unwatched episodes between the last watched episode and the
\* episodes that were now marked as watched?
has_gap(eps, show_id, last_watched, last_marked) ==
    \E i \in 1..Len(eps) :
        /\ eps[i].show_id = show_id /\ ~eps[i].watched
        /\ episode_is_greater_than(eps[i], last_watched)
        /\ episode_is_less_than(eps[i], last_marked)

RECURSIVE retain_unwatched(_, _, _, _, _, _)
\* The retain() closure of mark_as_watched, run over the vector from start
\* to end with its captured last_watched and stop.
retain_unwatched(eps, i, show_id, last_watched, stop, kept) ==
    IF i > Len(eps)
    THEN [eps |-> kept, last_watched |-> last_watched]
    ELSE LET episode == eps[i]
         IN  IF episode.show_id = show_id
                    /\ episode_is_greater_than(episode, last_watched)
             THEN IF episode.watched /\ ~stop
                  THEN retain_unwatched(eps, i + 1, show_id,
                            <<episode.season, episode.number>>, stop, kept)
                  ELSE retain_unwatched(eps, i + 1, show_id, last_watched,
                            TRUE, Append(kept, episode))
             ELSE retain_unwatched(eps, i + 1, show_id, last_watched, stop,
                            Append(kept, episode))

mark_as_watched(shows, eps, show_id, season, episode) ==
    LET step == mark_step(eps, show_id, season, episode)
        last_marked == step.marked
    IN  IF last_marked = None
        THEN [shows |-> shows, eps |-> step.eps, ret |-> last_marked]
        ELSE LET found == find_last_watched(shows, show_id)
                 gap == has_gap(step.eps, show_id, found.last_watched,
                                last_marked[1])
             IN  IF gap
                 THEN [shows |-> shows, eps |-> step.eps, ret |-> last_marked]
                 ELSE LET r == retain_unwatched(step.eps, 1, show_id,
                                    found.last_watched, FALSE, <<>>)
                      IN  [shows |->
                              IF found.show_index # None
                              THEN [shows EXCEPT
                                      ![found.show_index[1]].last_watched_episode
                                          = r.last_watched]
                              ELSE shows,
                           eps |-> r.eps,
                           ret |-> last_marked]

\* Faulty variant of subscribed_shows_by_most_recent: the shows as stored.
\* C38 tells the two apart.
subscribed_shows_as_stored(shows) == shows

\* The comparator of subscribed_shows_by_most_recent: Running shows first,
\* then those to be determined, then the others; within each, the show
\* updated last first.
most_recent_cmp_less(a, b) ==
    IF a.status = "Running" /\ b.status = "Running"
    THEN b.last_updated < a.last_updated
    ELSE IF a.status = "Running"
    THEN TRUE
    ELSE IF b.status = "Running"
    THEN FALSE
    ELSE IF a.status = "ToBeDetermined" /\ b.status = "ToBeDetermined"
    THEN b.last_updated < a.last_updated
    ELSE IF a.status = "ToBeDetermined"
    THEN TRUE
    ELSE IF b.status = "ToBeDetermined"
    THEN FALSE
    ELSE b.last_updated < a.last_updated

RECURSIVE insert_by_most_recent(_, _)
insert_by_most_recent(sorted, show) ==
    IF sorted = <<>>
    THEN <<show>>
    ELSE LET n == Len(sorted)
         IN  IF most_recent_cmp_less(show, sorted[n])
             THEN Append(insert_by_most_recent(SubSeq(sorted, 1, n - 1),
                                               show),
                         sorted[n])
             ELSE Append(sorted, show)

RECURSIVE subscribed_shows_by_most_recent(_)
\* The shows in the order of the listing (slice::sort_by: stable).
subscribed_shows_by_most_recent(shows) ==
    IF shows = <<>>
    THEN <<>>
    ELSE LET n == Len(shows)
         IN  insert_by_most_recent(
                subscribed_shows_by_most_recent(SubSeq(shows, 1, n - 1)),
                shows[n])

\* Faulty variant of update_show: the stored show is replaced by the one
\* handed in, last_watched_episode included.  C35 tells the two apart.
update_show_replacing(shows, show) ==
    LET matches == {i \in 1..Len(shows) : shows[i].id = show.id}
    IN  IF matches = {}
        THEN [shows |-> shows, ret |-> FALSE]
        ELSE LET index == CHOOSE i \in matches : \A j \in matches : i <= j
             IN  [shows |-> [shows EXCEPT ![index] = show],
                  ret |-> shows[index].last_updated # show.last_updated]

\* Faulty variant of update_show: returns whether the show was found, as
\* update_episode does.  C34 tells the two apart.
update_show_found(shows, show) ==
    LET matches == {i \in 1..Len(shows) : shows[i].id = show.id}
    IN  IF matches = {}
        THEN [shows |-> shows, ret |-> FALSE]
        ELSE LET index == CHOOSE i \in matches : \A j \in matches : i <= j
             IN  [shows |-> [shows EXCEPT
                                ![index].status = show.status,
                                ![index].last_updated = show.last_updated],
                  ret |-> TRUE]

update_show(shows, show) ==
    LET matches == {i \in 1..Len(shows) : shows[i].id = show.id}
    IN  IF matches = {}
        THEN [shows |-> shows, ret |-> FALSE]
        ELSE LET index == CHOOSE i \in matches : \A j \in matches : i <= j
             IN  [shows |-> [shows EXCEPT
                                ![index].status = show.status,
                                ![index].last_updated = show.last_updated],
                  ret |-> shows[index].last_updated # show.last_updated]

\* Faulty variant of update_episode: the watched flag is overwritten too.
\* C25 tells the two apart.
update_episode_resetting(eps, episode) ==
    LET matches == {i \in 1..Len(eps) :
                        eps[i].episode_id = episode.episode_id}
    IN  IF matches = {}
        THEN [eps |-> eps, ret |-> FALSE]
        ELSE LET index == CHOOSE i \in matches : \A j \in matches : i <= j
             IN  [eps |-> [eps EXCEPT
                              ![index].season = episode.season,
                              ![index].number = episode.number,
                              ![index].airstamp = episode.airstamp,
                              ![index].watched = episode.watched],
                  ret |-> TRUE]

update_episode(eps, episode) ==
    LET matches == {i \in 1..Len(eps) :
                        eps[i].episode_id = episode.episode_id}
    IN  IF matches = {}
        THEN [eps |-> eps, ret |-> FALSE]
        ELSE LET index == CHOOSE i \in matches : \A j \in matches : i <= j
             IN  [eps |-> [eps EXCEPT
                              ![index].season = episode.season,
                              ![index].number = episode.number,
                              ![index].airstamp = episode.airstamp],
                  ret |-> TRUE]

(***************************************************************************)
(* The state file.  A file is absent, or holds a text: nothing yet (just   *)
(* created or truncated), a prefix of a JSON text (which no parser         *)
(* accepts), or a whole JSON text.                                         *)
(***************************************************************************)
VERSION == 1

Absent == [kind |-> "absent"]
Empty == [kind |-> "empty"]
Partial == [kind |-> "partial"]
Complete(json) == [kind |-> "complete", json |-> json]

\* self.path, and the two file names store() pushes onto it.
Path == "bingers"
user_data_json(path) == <<path, "user_data.json">>
\* Faulty variant of user_data_tmp: the document is written in place.  C12
\* tells the two apart.
user_data_in_place(path) == <<path, "user_data.json">>

user_data_tmp(path) == <<path, "user_data.tmp">>

FileNames == {user_data_json(Path), user_data_tmp(Path)}

\* Faulty variant of serialize_show: last_updated keeps its field name.  C13
\* tells the two apart.
serialize_show_unrenamed(show) ==
    [id |-> show.id,
     status |-> show.status,
     lastUpdated |-> show.last_updated,
     lastWatchedEpisode |-> show.last_watched_episode]

\* #[derive(Serialize)] for Show, with rename_all = "camelCase" and
\* rename = "updated".
serialize_show(show) ==
    [id |-> show.id,
     status |-> show.status,
     updated |-> show.last_updated,
     lastWatchedEpisode |-> show.last_watched_episode]

\* #[derive(Serialize)] for Episode, with rename = "id".  An Option<DateTime>
\* is written as null or as a string.
serialize_episode(episode) ==
    [id |-> episode.episode_id,
     show_id |-> episode.show_id,
     season |-> episode.season,
     number |-> episode.number,
     airstamp |-> IF episode.airstamp = None
                  THEN <<"null">> ELSE <<"string", episode.airstamp[1]>>,
     watched |-> episode.watched]

\* serde_json::to_string(&self.data).  (data.version is 1 in every store the
\* model holds.)
to_string(shows, eps) ==
    [version |-> 1,
     subscribed_shows |-> [i \in 1..Len(shows) |-> serialize_show(shows[i])],
     unwatched_episodes |->
        [i \in 1..Len(eps) |-> serialize_episode(eps[i])]]

\* #[derive(Deserialize)] for Show: `updated` and `lastWatchedEpisode` have
\* defaults, the other keys are required.
show_is_decodable(json) == {"id", "status"} \subseteq DOMAIN json
deserialize_show(json) ==
    [id |-> json.id,
     status |-> json.status,
     last_updated |-> IF "updated" \in DOMAIN json THEN json.updated ELSE 0,
     last_watched_episode |->
        IF "lastWatchedEpisode" \in DOMAIN json
        THEN json.lastWatchedEpisode ELSE <<0, 0>>]

\* #[derive(Deserialize)] for Episode: `show_id` and `watched` have defaults,
\* an Option is None when its key is missing or null.
episode_is_decodable(json) == {"id", "season", "number"} \subseteq DOMAIN json
deserialize_episode(json) ==
    [episode_id |-> json.id,
     show_id |-> IF "show_id" \in DOMAIN json THEN json.show_id ELSE 0,
     season |-> json.season,
     number |-> json.number,
     airstamp |-> IF "airstamp" \in DOMAIN json
                        /\ json.airstamp[1] # "null"
                  THEN Some(json.airstamp[2]) ELSE None,
     watched |-> IF "watched" \in DOMAIN json THEN json.watched ELSE FALSE]

\* serde_json::from_str::<UserDataV1>: does the text decode?
user_data_is_decodable(json) ==
    /\ {"version", "subscribed_shows", "unwatched_episodes"}
            \subseteq DOMAIN json
    /\ \A i \in 1..Len(json.subscribed_shows) :
            show_is_decodable(json.subscribed_shows[i])
    /\ \A i \in 1..Len(json.unwatched_episodes) :
            episode_is_decodable(json.unwatched_episodes[i])

Ok(value) == [tag |-> "Ok", value |-> value]
Err(error) == [tag |-> "Err", error |-> error]

\* UserData::new: the data of an empty store.
UserData_new ==
    [version |-> 1, subscribed_shows |-> <<>>, unwatched_episodes |-> <<>>]

\* The ways get_data_root, File::open and read_to_string can go.
IoOutcomes == {"ok", "no_data_root", "open_fails", "read_fails"}

\* Faulty variant of File_open: every failure to open reads as a missing file.
\* C15 tells the two apart.
File_open_or_not_found(file, io) ==
    IF io = "open_fails" \/ file = Absent THEN "NotFound" ELSE "Ok"

\* File::open(&user_data_file): Ok, or the kind of the io::Error.
File_open(file, io) ==
    IF io = "open_fails"
    THEN "PermissionDenied"
    ELSE IF file = Absent THEN "NotFound" ELSE "Ok"

\* Faulty variant of version_is_newer: every version is taken for known.
\* C14 tells the two apart.
version_is_never_newer(version) == FALSE

\* detect_version.version > VERSION
version_is_newer(version) == version > VERSION

\* An error made by chain_err: a message, with the error it wraps.
Msg(cause) == [kind |-> "Msg", cause |-> cause]

\* UserData::load on a state file, given how finding, opening and reading it
\* go.
load(file, io) ==
    IF io = "no_data_root"
    THEN Err(Msg("AppDirsError"))
    ELSE IF File_open(file, io) = "NotFound"
    THEN Ok(UserData_new)
    ELSE IF File_open(file, io) # "Ok"
    THEN Err([kind |-> "IoError"])
    ELSE IF io = "read_fails"
    THEN Err(Msg("IoError"))
    ELSE IF file.kind # "complete" \/ "version" \notin DOMAIN file.json
    THEN Err(Msg("SerdeJsonError"))
    ELSE IF version_is_newer(file.json.version)
    THEN Err([kind |-> "UserDataVersionMismatch",
              expected |-> VERSION, actual |-> file.json.version])
    ELSE IF ~user_data_is_decodable(file.json)
    THEN Err(Msg("SerdeJsonError"))
    ELSE Ok([version |-> file.json.version,
             subscribed_shows |->
                [i \in 1..Len(file.json.subscribed_shows) |->
                    deserialize_show(file.json.subscribed_shows[i])],
             unwatched_episodes |->
                [i \in 1..Len(file.json.unwatched_episodes) |->
                    deserialize_episode(file.json.unwatched_episodes[i])]])

\* Documents a later build of the program has left in the state file: one
\* in a layout this build does not know, one that reads as a version 1
\* document but for its version.
NewerDocuments ==
    {[version |-> 2, shows |-> <<>>],
     [to_string(<<Show(TheOrvilleId, "Running", 1)>>, <<>>)
        EXCEPT !.version = 2]}

(***************************************************************************)
(* tvmaze_api.rs: the catalog client.                                      *)
(***************************************************************************)
\* The most ids one call is given.
MaxIds == 2

RECURSIVE DoublingBackoff(_, _, _)
\* Faulty variant of FibonacciBackoff: every delay is twice the one before.
\* C18 tells the two apart.
DoublingBackoff(curr, next, n) ==
    IF n = 0
    THEN <<>>
    ELSE <<curr>> \o DoublingBackoff(2 * curr, next, n - 1)

RECURSIVE FibonacciBackoff(_, _, _)
\* tokio_retry::strategy::FibonacciBackoff, as an iterator of n delays in
\* milliseconds.
FibonacciBackoff(curr, next, n) ==
    IF n = 0
    THEN <<>>
    ELSE <<curr>> \o FibonacciBackoff(next, curr + next, n - 1)

\* Faulty variant of retry_strategy: one delay less.  C17 tells the two
\* apart.
retry_strategy_shorter(from_millis, take) ==
    FibonacciBackoff(from_millis, from_millis, take - 1)

\* FibonacciBackoff::from_millis(1000).take(6)
retry_strategy(from_millis, take) ==
    FibonacciBackoff(from_millis, from_millis, take)

\* HttpError(status, uri)
HttpError(status) == [kind |-> "HttpError", status |-> status]

\* Faulty variant of the retry condition: every HTTP error is retried.  C16
\* tells the two apart.
retry_any_status(error) == error.kind = "HttpError"

\* The condition handed to RetryIf::spawn.
retry_condition(error) == error.kind = "HttpError" /\ error.status = 429

\* What a request attempt can meet: a response with a status, or an error
\* of the transport.
Responses ==
    {[kind |-> "response", status |-> s] : s \in {200, 429, 404, 500}}
        \cup {[kind |-> "transport_error"]}

\* create_get_request: the outcome of one attempt.
create_get_request(response) ==
    IF response.kind = "transport_error"
    THEN Err([kind |-> "HyperError"])
    ELSE IF response.status # 200
    THEN Err(HttpError(response.status))
    ELSE Ok(response)

\* How reading and decoding the body of a 200 response can go.
BodyOutcomes == {"ok", "read_fails", "malformed"}

\* What the catalog serves for a show: a JSON text without the keys the
\* program adds.
catalog_show(id) == [id |-> id, status |-> "Running", updated |-> 1]
catalog_episodes(id) ==
    LET listed(episode) == episode \in CatalogEpisodes
        eps == SelectSeq(<<Episode(id, 1, 1), Episode(id, 1, 2)>>, listed)
    IN  [i \in 1..Len(eps) |->
            [id |-> eps[i].episode_id,
             season |-> eps[i].season,
             number |-> eps[i].number,
             airstamp |-> <<"string", eps[i].airstamp[1]>>]]

\* The closure of get_shows on the body: one Show.
decode_show(id) == <<deserialize_show(catalog_show(id))>>

\* Faulty variant of decode_episodes: show_id is left as decoded.  C22 tells
\* the two apart.
decode_episodes_untagged(id) ==
    LET served == catalog_episodes(id)
    IN  [i \in 1..Len(served) |-> deserialize_episode(served[i])]

\* The closure of get_episodes on the body: the episodes, with show_id set.
decode_episodes(id) ==
    LET served == catalog_episodes(id)
    IN  [i \in 1..Len(served) |->
            [deserialize_episode(served[i]) EXCEPT !.show_id = id]]

NoFetch == [call |-> "none", collected |-> <<>>, result |-> None]

\* The id vectors a call is given.
IdVectors ==
    UNION {[1..n -> ShowIds] : n \in 1..MaxIds}

\* Faulty variant of poll_ready: a request makes no progress while another
\* one waits for its retry.  C21 tells the two apart.
poll_ready_in_turn(reqs, i, phase) ==
    /\ reqs[i].phase = phase
    /\ phase # "sleep" => \A j \in 1..Len(reqs) : reqs[j].phase # "sleep"

\* Can the event loop take request i on from `phase`?  The wait before a
\* retry is a timer of the event loop, not a sleep of its thread, and the
\* queue polls each request that was woken.
poll_ready(reqs, i, phase) == reqs[i].phase = phase

\* A request as RetryIf::spawn leaves it: the first attempt is under way.
Request(id) ==
    [id |-> id, phase |-> "attempt", waited |-> <<>>, result |-> None]

(***************************************************************************)
(* app.rs: the commands.  main() runs one command per process: App::new    *)
(* loads the state file, the command works on the loaded data, and the     *)
(* process ends.  What the catalog serves, what the user answers and what  *)
(* the clock shows are inputs of a command.                                *)
(***************************************************************************)
\* The episodes the catalog lists for the commands: the first and the last
\* episode of season 1 of The Orville, the first of Star Trek: Discovery.
listed_episodes(id) ==
    IF id = TheOrvilleId
    THEN <<Episode(id, 1, 1), Episode(id, 1, MaxNumber)>>
    ELSE <<Episode(id, 1, 1)>>

\* The clock: the air time of the first and of the last episode.
Times == {Episode(TheOrvilleId, 1, n).airstamp[1] : n \in {1, MaxNumber}}

\* How the catalog serves a show's list: as listed, with the air time of the
\* last episode taken back, or with the numbers in the opposite order.
Revisions == {"listed", "unscheduled", "renumbered"}

\* The body of /shows/{id}/episodes.
served_episodes(id, revision) ==
    LET listed == listed_episodes(id)
        n == Len(listed)
    IN  [i \in 1..n |->
            [id |-> listed[i].episode_id,
             season |-> listed[i].season,
             number |-> IF revision = "renumbered"
                        THEN listed[n + 1 - i].number
                        ELSE listed[i].number,
             airstamp |-> IF revision = "unscheduled" /\ i = n
                          THEN <<"null">>
                          ELSE <<"string", listed[i].airstamp[1]>>]]

\* The body of /shows/{id}, with the marker the catalog has now.
served_show(id, updated) == [catalog_show(id) EXCEPT !.updated = updated]

\* The markers the catalog serves.
Markers == {0, MaxUpdated}

RECURSIVE concat_episodes(_, _)
\* TvMazeApi::get_episodes when every request succeeds: the decoded and
\* tagged episodes of the ids, in the order the requests complete.
concat_episodes(ids, revision) ==
    IF ids = <<>>
    THEN <<>>
    ELSE LET served == served_episodes(Head(ids), revision)
         IN  [i \in 1..Len(served) |->
                [deserialize_episode(served[i]) EXCEPT !.show_id = Head(ids)]]
                \o concat_episodes(Tail(ids), revision)

Reverse(seq) == [i \in 1..Len(seq) |-> seq[Len(seq) + 1 - i]]

\* How a get_episodes call goes: it fails, or every request succeeds, the
\* requests completing in the order of the ids or in the opposite order.
EpisodeFetches ==
    {[ok |-> FALSE]}
        \cup {[ok |-> TRUE, revision |-> r, reversed |-> FALSE] :
                r \in Revisions}
        \cup {[ok |-> TRUE, revision |-> "listed", reversed |-> TRUE]}

\* self.api.get_episodes(&show_ids).  Without ids no request is made, and
\* concat2() of the empty queue is the empty vector.
api_get_episodes(ids, fetched) ==
    IF ids = <<>>
    THEN Ok(<<>>)
    ELSE IF ~fetched.ok
    THEN Err(Msg(HttpError(500)))
    ELSE Ok(concat_episodes(IF fetched.reversed THEN Reverse(ids) ELSE ids,
                            fetched.revision))

\* self.api.get_shows(&show_ids): the shows in the order of the ids.
api_get_shows(ids, ok, updated) ==
    IF ~ok
    THEN Err(Msg(HttpError(500)))
    ELSE Ok([i \in 1..Len(ids) |->
                deserialize_show(served_show(ids[i], updated))])

\* How store() goes.
StoreOutcomes == {"ok", "open_fails", "write_fails"}

\* UserData::store as one step.
store(fs, shows, eps, outcome) ==
    IF outcome = "open_fails"
    THEN [files |-> fs, ret |-> Err(Msg("IoError"))]
    ELSE IF outcome = "write_fails"
    THEN [files |-> [fs EXCEPT ![user_data_tmp(Path)] = Partial],
          ret |-> Err(Msg("IoError"))]
    ELSE [files |-> [fs EXCEPT
                        ![user_data_json(Path)] =
                            Complete(to_string(shows, eps)),
                        ![user_data_tmp(Path)] =
                            IF user_data_tmp(Path) = user_data_json(Path)
                            THEN Complete(to_string(shows, eps))
                            ELSE Absent],
          ret |-> Ok(<<>>)]

\* What a command leaves: the data in memory, the files, what it returns
\* and whether it called store().
Outcome(shows, eps, fs, ret, stored) ==
    [shows |-> shows, eps |-> eps, files |-> fs, ret |-> ret,
     stored |-> stored]

\* Faulty variant of return_err: the data is saved before the error is
\* returned.  C27 tells the two apart.
return_err_saving(shows, eps, fs, error) ==
    Outcome(shows, eps, store(fs, shows, eps, "ok").files, Err(error),
            "none")

\* The `?` operator on an Err: the command returns the error at once.
return_err(shows, eps, fs, error) ==
    Outcome(shows, eps, fs, Err(error), "none")

\* self.user_data.store()?; Ok(())
store_and_return(shows, eps, fs, outcome) ==
    LET stored == store(fs, shows, eps, outcome)
    IN  Outcome(shows, eps, stored.files, stored.ret,
                IF stored.ret.tag = "Ok" THEN "ok" ELSE "failed")

\* Faulty variant of has_aired: an episode without an air time counts as
\* aired.  C23 tells the two apart.
has_aired_or_no_airstamp(episode, now) ==
    episode.airstamp = None \/ now >= episode.airstamp[1]

\* The closure of "Remove episodes that haven't aired yet".
has_aired(episode, now) ==
    IF episode.airstamp # None
    THEN now >= episode.airstamp[1]
    ELSE FALSE

retain_aired(episodes, now) ==
    LET keep(episode) == has_aired(episode, now)
    IN  SelectSeq(episodes, keep)

\* Faulty variant of is_after: the episode the pointer is on passes.  C24
\* tells the two apart.
is_after_or_at(episode, last_watched) ==
    IF episode.season = last_watched[1]
    THEN episode.number >= last_watched[2]
    ELSE episode.season > last_watched[1]

\* The comparison of the closures of "Only keep episodes that haven't been
\* watched yet" and "Remove all episodes that have already been watched".
is_after(episode, last_watched) ==
    IF episode.season = last_watched[1]
    THEN episode.number > last_watched[2]
    ELSE episode.season > last_watched[1]

\* App::get_episodes: the aired episodes of the show that lie after the
\* episode the user names as the last one watched, and that episode.
App_get_episodes(show, answer, fetched, now) ==
    LET response == api_get_episodes(<<show.id>>, fetched)
    IN  IF response.tag = "Err"
        THEN response
        ELSE LET keep(episode) == is_after(episode, answer)
             IN  Ok([episodes |->
                        SelectSeq(retain_aired(response.value, now), keep),
                     last_watched |-> answer])

\* What the user answers to "Have you already watched some episodes":
\* no, or yes and the first episode.
Answers == {<<0, 0>>, <<1, 1>>}

\* App::add_show, for the show the user selects among the search results
\* (None when there is none, or the search fails).
App_add_show(shows, eps, fs, selected_show, answer, fetched, now, outcome) ==
    IF selected_show = None
    THEN Outcome(shows, eps, fs, Ok(<<>>), "none")
    ELSE LET got == App_get_episodes(selected_show[1], answer, fetched, now)
         IN  IF got.tag = "Err"
             THEN return_err(shows, eps, fs, got.error)
             ELSE LET show == [selected_show[1] EXCEPT
                                 !.last_watched_episode
                                     = got.value.last_watched]
                  IN  store_and_return(
                        add_show(shows, show),
                        add_episodes(eps, got.value.episodes),
                        fs, outcome)

\* match_with_subscribed_shows and select_show: the subscribed show the
\* command is for, if the search result the user picks is subscribed.
matched_show(shows, show_id) ==
    IF \E i \in 1..Len(shows) : shows[i].id = show_id
    THEN Some(deserialize_show(served_show(show_id, 0)))
    ELSE None

\* App::remove_show
App_remove_show(shows, eps, fs, show_id, outcome) ==
    LET show_to_remove == matched_show(shows, show_id)
    IN  IF show_to_remove = None
        THEN Outcome(shows, eps, fs, Ok(<<>>), "none")
        ELSE store_and_return(
                remove_show(shows, show_to_remove[1]),
                remove_episodes(eps, show_to_remove[1]),
                fs, outcome)

\* App::mark_as_watched
App_mark_as_watched(shows, eps, fs, show_id, season, episode, outcome) ==
    LET show_to_update == matched_show(shows, show_id)
    IN  IF show_to_update = None
        THEN Outcome(shows, eps, fs, Ok(<<>>), "none")
        ELSE LET r == mark_as_watched(shows, eps, show_to_update[1].id,
                                      season, episode)
             IN  IF r.ret # None
                 THEN store_and_return(r.shows, r.eps, fs, outcome)
                 ELSE Outcome(r.shows, r.eps, fs, Ok(<<>>), "none")

RECURSIVE update_shows_forced(_, _, _, _)
\* Faulty variant of update_shows: what update_show returns is not looked
\* at, every id is pushed.  C37 tells the two apart.
update_shows_forced(shows, fetched, force, show_ids) ==
    IF fetched = <<>>
    THEN [shows |-> shows, show_ids |-> show_ids]
    ELSE update_shows_forced(update_show(shows, Head(fetched)).shows,
                             Tail(fetched), force,
                             Append(show_ids, Head(fetched).id))

RECURSIVE update_shows(_, _, _, _)
\* The loop of update over the fetched shows: the shows after update_show,
\* and the ids whose episodes are to be fetched.
update_shows(shows, fetched, force, show_ids) ==
    IF fetched = <<>>
    THEN [shows |-> shows, show_ids |-> show_ids]
    ELSE LET r == update_show(shows, Head(fetched))
         IN  update_shows(r.shows, Tail(fetched), force,
                          IF r.ret \/ force
                          THEN Append(show_ids, Head(fetched).id)
                          ELSE show_ids)

RECURSIVE retain_not_watched(_, _, _, _, _, _)
\* The retain() closure of "Remove all episodes that have already been
\* watched", run over the vector with its captured index and current_show.
\* (index counts from 1 here.)
retain_not_watched(shows, episodes, i, index, current_show, kept) ==
    IF i > Len(episodes)
    THEN kept
    ELSE LET episode == episodes[i]
             positions == {k \in 1..Len(shows) : shows[k].id = episode.show_id}
         IN  IF episode.show_id # current_show /\ positions = {}
             THEN retain_not_watched(shows, episodes, i + 1, index,
                                     current_show, kept)
             ELSE LET found == IF episode.show_id # current_show
                               THEN CHOOSE k \in positions :
                                        \A l \in positions : k <= l
                               ELSE index
                      last_watched == shows[found].last_watched_episode
                  IN  retain_not_watched(shows, episodes, i + 1, found,
                            episode.show_id,
                            IF is_after(episode, last_watched)
                            THEN Append(kept, episode)
                            ELSE kept)

RECURSIVE retain_not_updated(_, _, _, _)
\* episodes.retain(|episode| !self.user_data.update_episode(episode))
retain_not_updated(eps, episodes, i, kept) ==
    IF i > Len(episodes)
    THEN [eps |-> eps, episodes |-> kept]
    ELSE LET r == update_episode(eps, episodes[i])
         IN  retain_not_updated(r.eps, episodes, i + 1,
                    IF r.ret THEN kept ELSE Append(kept, episodes[i]))

\* The comparator of episodes.sort_by in update: by air time.
airstamp_cmp_less(a, b) ==
    IF a.airstamp # None /\ b.airstamp # None
    THEN a.airstamp[1] < b.airstamp[1]
    ELSE IF a.airstamp # None
    THEN FALSE
    ELSE IF b.airstamp # None
    THEN TRUE
    ELSE episode_cmp_less(b, a)

RECURSIVE insert_by_airstamp(_, _)
insert_by_airstamp(sorted, episode) ==
    IF sorted = <<>>
    THEN <<episode>>
    ELSE LET n == Len(sorted)
         IN  IF airstamp_cmp_less(episode, sorted[n])
             THEN Append(insert_by_airstamp(SubSeq(sorted, 1, n - 1),
                                            episode),
                         sorted[n])
             ELSE Append(sorted, episode)

RECURSIVE sort_by_airstamp(_)
\* slice::sort_by: stable.
sort_by_airstamp(seq) ==
    IF seq = <<>>
    THEN <<>>
    ELSE LET n == Len(seq)
         IN  insert_by_airstamp(sort_by_airstamp(SubSeq(seq, 1, n - 1)),
                                seq[n])

\* UserData::unwatched_episodes_oldest_first: the stored episodes under
\* sort_by with the comparator update uses.
unwatched_episodes_oldest_first(eps) == sort_by_airstamp(eps)

\* App::update
App_update(shows, eps, fs, force, shows_ok, updated, fetched, now, outcome) ==
    LET show_ids == [i \in 1..Len(shows) |-> shows[i].id]
    IN  IF show_ids = <<>>
        THEN Outcome(shows, eps, fs, Ok(<<>>), "none")
        ELSE
        LET got_shows == api_get_shows(show_ids, shows_ok, updated)
        IN  IF got_shows.tag = "Err"
            THEN return_err(shows, eps, fs, got_shows.error)
            ELSE
            LET updating == update_shows(shows, got_shows.value, force, <<>>)
                got == api_get_episodes(updating.show_ids, fetched)
            IN  IF got.tag = "Err"
                THEN return_err(updating.shows, eps, fs, got.error)
                ELSE
                LET aired == retain_aired(got.value, now)
                    not_watched == retain_not_watched(updating.shows, aired,
                                                      1, 1, 0, <<>>)
                    updated_eps == retain_not_updated(eps, not_watched, 1,
                                                      <<>>)
                    episodes == updated_eps.episodes
                IN  store_and_return(
                        updating.shows,
                        IF episodes # <<>>
                        THEN add_episodes(updated_eps.eps,
                                          sort_by_airstamp(episodes))
                        ELSE updated_eps.eps,
                        fs, outcome)

(***************************************************************************)
(* The state machine.                                                      *)
(***************************************************************************)
VARIABLES
    subscribed_shows,     \* UserDataV1.subscribed_shows
    unwatched_episodes,   \* UserDataV1.unwatched_episodes
    last                  \* the last call: its name, which of season and
                          \* episode it was given, and what it returned

\* The user data directory and the process that holds the UserData value.
VARIABLES
    files,                \* the content of user_data.json and user_data.tmp
    pc                    \* where the process is: without a UserData value,
                          \* holding one, or inside store()

file_vars == <<files, pc>>

\* The catalog client.
VARIABLES
    fetch,                \* the get_shows or get_episodes call under way
    requests              \* the requests queued for it, one per id

api_vars == <<fetch, requests>>

vars == <<subscribed_shows, unwatched_episodes, last, file_vars, api_vars>>

\* What is recorded of a call.
Call(op, season, episode, ret) ==
    [op |-> op, given |-> <<season # None, episode # None>>, ret |-> ret]

\* UserData::new
Init ==
    /\ subscribed_shows = <<>>
    /\ unwatched_episodes = <<>>
    /\ last = Call("new", None, None, None)
    /\ files = [name \in FileNames |-> Absent]
    /\ pc = "loaded"
    /\ fetch = NoFetch
    /\ requests = <<>>

AddShow(show) ==
    /\ subscribed_shows' = add_show(subscribed_shows, show)
    /\ UNCHANGED unwatched_episodes
    /\ last' = Call("add_show", None, None, None)
    /\ UNCHANGED <<file_vars, api_vars>>

AddEpisodes(batch) ==
    /\ unwatched_episodes' = add_episodes(unwatched_episodes, batch)
    /\ UNCHANGED subscribed_shows
    /\ last' = Call("add_episodes", None, None, None)
    /\ UNCHANGED <<file_vars, api_vars>>

RemoveEpisodes(show) ==
    /\ unwatched_episodes' = remove_episodes(unwatched_episodes, show)
    /\ UNCHANGED subscribed_shows
    /\ last' = Call("remove_episodes", None, None, None)
    /\ UNCHANGED <<file_vars, api_vars>>

RemoveShow(show) ==
    /\ subscribed_shows' = remove_show(subscribed_shows, show)
    /\ UNCHANGED unwatched_episodes
    /\ last' = Call("remove_show", None, None, None)
    /\ UNCHANGED <<file_vars, api_vars>>

MarkAsWatched(show_id, season, episode) ==
    LET r == mark_as_watched(subscribed_shows, unwatched_episodes,
                             show_id, season, episode)
    IN  /\ subscribed_shows' = r.shows
        /\ unwatched_episodes' = r.eps
        /\ last' = Call("mark_as_watched", season, episode, r.ret)
        /\ UNCHANGED <<file_vars, api_vars>>

UpdateShow(show) ==
    LET r == update_show(subscribed_shows, show)
    IN  /\ subscribed_shows' = r.shows
        /\ UNCHANGED unwatched_episodes
        /\ last' = Call("update_show", None, None, Some(r.ret))
        /\ UNCHANGED <<file_vars, api_vars>>

UpdateEpisode(episode) ==
    LET r == update_episode(unwatched_episodes, episode)
    IN  /\ unwatched_episodes' = r.eps
        /\ UNCHANGED subscribed_shows
        /\ last' = Call("update_episode", None, None, Some(r.ret))
        /\ UNCHANGED <<file_vars, api_vars>>

\* The store under the operations that handle episodes.
Next ==
    \/ \E show \in Shows : AddShow(show)
    \/ \E batch \in Batches : AddEpisodes(batch)
    \/ \E show \in Shows : RemoveEpisodes(show)
    \/ \E show \in Shows : RemoveShow(show)
    \/ \E show_id \in ShowIds : \E a \in MarkArguments :
            MarkAsWatched(show_id, a[1], a[2])
    \/ \E episode \in Episodes : UpdateEpisode(episode)

Spec == Init /\ [][Next]_vars

\* The store under add_show, add_episodes and mark_as_watched alone.
NextGaps ==
    \/ \E show \in Shows : AddShow(show)
    \/ \E batch \in Batches : AddEpisodes(batch)
    \/ \E show_id \in ShowIds : \E a \in MarkArguments :
            MarkAsWatched(show_id, a[1], a[2])

SpecGaps == Init /\ [][NextGaps]_vars

\* The store with both shows subscribed and episodes of both in the list.
BothShows == {Show(id, "Running", 0) : id \in ShowIds}
EpisodesOfBothShows == {Episode(id, 1, n) : id \in ShowIds, n \in Numbers}

NextBoth ==
    \/ \E show \in BothShows : AddShow(show)
    \/ \E episode \in EpisodesOfBothShows : AddEpisodes(<<episode>>)
    \/ \E show_id \in ShowIds : \E a \in MarkArguments :
            MarkAsWatched(show_id, a[1], a[2])

SpecBoth == Init /\ [][NextBoth]_vars

\* The store under the two update operations, on a list that add_episodes
\* and mark_as_watched have filled with pointers and watched flags.
EpisodesOfTheOrville == {e \in Episodes : e.show_id = TheOrvilleId}

\* The revisions of the shows as the catalog serves them: without a last
\* watched episode (#[serde(default)]).
ServedRevisions ==
    {show \in ShowRevisions :
        /\ show.last_updated \in Markers
        /\ show.last_watched_episode = <<0, 0>>}

NextUpdates ==
    \/ \E show \in Shows : AddShow(show)
    \/ \E episode \in EpisodesOfTheOrville : AddEpisodes(<<episode>>)
    \/ \E a \in MarkArguments : MarkAsWatched(TheOrvilleId, a[1], a[2])
    \/ \E show \in ServedRevisions : UpdateShow(show)
    \/ \E episode \in Episodes : UpdateEpisode(episode)

SpecUpdates == Init /\ [][NextUpdates]_vars

\* An episode of Star Trek: Discovery that carries the episode id of the
\* first episode of The Orville: equal to it by id, different from it by
\* PartialEq.
ClashingEpisode ==
    [Episode(StarTrekDiscoveryId, 1, MaxNumber) EXCEPT
        !.episode_id = Episode(TheOrvilleId, 1, 1).episode_id]

EpisodesByIdentity == Episodes \cup {ClashingEpisode}

\* The list under add_episodes and update_episode, with episodes that share
\* an episode id across shows.
NextIdentity ==
    \/ \E episode \in EpisodesByIdentity : AddEpisodes(<<episode>>)
    \/ \E episode \in EpisodesByIdentity : UpdateEpisode(episode)

SpecIdentity == Init /\ [][NextIdentity]_vars

\* The listing of the unwatched episodes.
UnwatchedEpisodesOldestFirst ==
    /\ last' = Call("unwatched_episodes_oldest_first", None, None,
                    Some(unwatched_episodes_oldest_first(unwatched_episodes)))
    /\ UNCHANGED <<subscribed_shows, unwatched_episodes>>
    /\ UNCHANGED <<file_vars, api_vars>>

\* The listed episodes as the catalog serves them before their air time is
\* known (airstamp: null).
UnscheduledEpisodes == {[e EXCEPT !.airstamp = None] : e \in CatalogEpisodes}

\* The list under add_episodes, update_episode and remove_episodes, with
\* episodes with and without an air time, and its listing.
NextAirTime ==
    \/ \E episode \in CatalogEpisodes \cup UnscheduledEpisodes :
            AddEpisodes(<<episode>>)
    \/ \E episode \in CatalogEpisodes \cup UnscheduledEpisodes :
            UpdateEpisode(episode)
    \/ \E show \in BothShows : RemoveEpisodes(show)
    \/ UnwatchedEpisodesOldestFirst

SpecAirTime == Init /\ [][NextAirTime]_vars

\* enum Status
AllStatuses == {"ToBeDetermined", "InDevelopment", "Running", "Ended"}

\* The shows in every status, as the catalog serves them.
ShowsOfEveryStatus ==
    {Show(id, status, updated) :
        id \in ShowIds, status \in AllStatuses, updated \in Markers}

\* The store under the operations that handle the subscribed shows, with
\* shows of every status.
NextListing ==
    \/ \E show \in ShowsOfEveryStatus : AddShow(show)
    \/ \E show \in ShowsOfEveryStatus : RemoveShow(show)
    \/ \E show \in ShowsOfEveryStatus : UpdateShow(show)

SpecListing == Init /\ [][NextListing]_vars

\* The store under the operations that handle the subscribed shows, with
\* every revision of their metadata.
NextShows ==
    \/ \E show \in ShowRevisions : AddShow(show)
    \/ \E show \in ShowRevisions : RemoveShow(show)
    \/ \E show \in ShowRevisions : UpdateShow(show)

SpecShows == Init /\ [][NextShows]_vars

(***************************************************************************)
(* The store and its state file.  store() is taken step by step, each step *)
(* succeeding or failing as the file system decides; between two steps the *)
(* process may end.                                                        *)
(***************************************************************************)
\* The state file as the program finds it when it is first run.
InitFile ==
    /\ subscribed_shows = <<>>
    /\ unwatched_episodes = <<>>
    /\ last = Call("new", None, None, None)
    /\ \E file \in {Absent} \cup {Complete(json) : json \in NewerDocuments} :
          files = [name \in FileNames |->
                      IF name = user_data_json(Path) THEN file ELSE Absent]
    /\ pc = "no_user_data"
    /\ fetch = NoFetch
    /\ requests = <<>>

\* UserData::load, called by App::new.
Load(io) ==
    LET result == load(files[user_data_json(Path)], io)
    IN  /\ pc = "no_user_data"
        /\ last' = Call("load", None, None, result)
        /\ IF result.tag = "Ok"
           THEN /\ subscribed_shows' = result.value.subscribed_shows
                /\ unwatched_episodes' = result.value.unwatched_episodes
                /\ pc' = "loaded"
           ELSE UNCHANGED <<subscribed_shows, unwatched_episodes, pc>>
        /\ UNCHANGED files
        /\ UNCHANGED api_vars

\* store() returns an error: the caller keeps its UserData value.
StoreFails(error) ==
    /\ last' = Call("store", None, None, Err(Msg(error)))
    /\ pc' = "loaded"
    /\ UNCHANGED <<subscribed_shows, unwatched_episodes>>
    /\ UNCHANGED api_vars

\* fs::create_dir_all(&self.path)
StoreCreateDir(ok) ==
    /\ pc = "loaded"
    /\ IF ok
       THEN /\ pc' = "store_dir_created"
            /\ UNCHANGED <<subscribed_shows, unwatched_episodes, last, api_vars>>
       ELSE StoreFails("IoError")
    /\ UNCHANGED files

\* OpenOptions::new().write(true).truncate(true).create(true).open(tmp)
StoreOpenTmp(ok) ==
    /\ pc = "store_dir_created"
    /\ IF ok
       THEN /\ files' = [files EXCEPT ![user_data_tmp(Path)] = Empty]
            /\ pc' = "store_tmp_opened"
            /\ UNCHANGED <<subscribed_shows, unwatched_episodes, last, api_vars>>
       ELSE StoreFails("IoError") /\ UNCHANGED files

\* serde_json::to_string(&self.data), then tmp_file.write_all(json): all of
\* the text is written, or the write fails after none or a part of it.
StoreWrite(written) ==
    /\ pc = "store_tmp_opened"
    /\ IF written = "all"
       THEN /\ files' = [files EXCEPT ![user_data_tmp(Path)] =
                            Complete(to_string(subscribed_shows,
                                               unwatched_episodes))]
            /\ pc' = "store_written"
            /\ UNCHANGED <<subscribed_shows, unwatched_episodes, last, api_vars>>
       ELSE /\ files' = [files EXCEPT ![user_data_tmp(Path)] =
                            IF written = "part" THEN Partial ELSE Empty]
            /\ StoreFails("IoError")

\* fs::rename(tmp, json): the file takes the place of the state file in one
\* step, or nothing changes.
StoreRename(ok) ==
    /\ pc = "store_written"
    /\ IF ok
       THEN /\ files' = [files EXCEPT
                            ![user_data_json(Path)] = files[user_data_tmp(Path)],
                            ![user_data_tmp(Path)] = Absent]
            /\ last' = Call("store", None, None, Ok(<<>>))
            /\ pc' = "loaded"
            /\ UNCHANGED <<subscribed_shows, unwatched_episodes, api_vars>>
       ELSE StoreFails("IoError") /\ UNCHANGED files

\* The process ends (it returns from main, or it is killed), wherever it is:
\* its UserData value is gone, the files stay.
Exit ==
    /\ pc # "no_user_data"
    /\ pc' = "no_user_data"
    /\ subscribed_shows' = <<>>
    /\ unwatched_episodes' = <<>>
    /\ last' = Call("exit", None, None, None)
    /\ UNCHANGED files
    /\ UNCHANGED api_vars

\* The show and the episodes the store is filled with here: the first and
\* the last episode of the season.
FileShows == {Show(TheOrvilleId, "Ended", MaxUpdated)}
FileNumbers == {1, MaxNumber}
FileEpisodes == {Episode(TheOrvilleId, 1, n) : n \in FileNumbers}

NextFile ==
    \/ \E io \in IoOutcomes : Load(io)
    \/ \E ok \in BOOLEAN : StoreCreateDir(ok)
    \/ \E ok \in BOOLEAN : StoreOpenTmp(ok)
    \/ \E written \in {"all", "part", "none"} : StoreWrite(written)
    \/ \E ok \in BOOLEAN : StoreRename(ok)
    \/ Exit
    \/ pc = "loaded" /\ \E show \in FileShows : AddShow(show)
    \/ pc = "loaded" /\ \E episode \in FileEpisodes : AddEpisodes(<<episode>>)
    \/ pc = "loaded" /\ \E n \in FileNumbers :
            MarkAsWatched(TheOrvilleId, Some(1), Some(n))

SpecFile == InitFile /\ [][NextFile]_vars

(***************************************************************************)
(* The catalog client at work.  A call queues one request per id and runs  *)
(* the event loop on requests.collect() or requests.concat2() until that   *)
(* future resolves.                                                        *)
(***************************************************************************)
\* get_shows(ids)
GetShows(ids) ==
    /\ fetch = NoFetch
    /\ fetch' = [NoFetch EXCEPT !.call = "get_shows"]
    /\ requests' = [i \in 1..Len(ids) |-> Request(ids[i])]
    /\ UNCHANGED <<subscribed_shows, unwatched_episodes, last, file_vars>>

\* get_episodes(ids)
GetEpisodes(ids) ==
    /\ fetch = NoFetch
    /\ fetch' = [NoFetch EXCEPT !.call = "get_episodes"]
    /\ requests' = [i \in 1..Len(ids) |-> Request(ids[i])]
    /\ UNCHANGED <<subscribed_shows, unwatched_episodes, last, file_vars>>

\* Faulty variant of poll_collect: after an error the items collected so
\* far are returned.  C19 tells the two apart.
poll_collect_partial(collected, result, all_settled) ==
    IF result.tag = "Err" \/ all_settled THEN Some(Ok(collected)) ELSE None

\* Collect / Concat2 polled when the stream over the queue yields: an error
\* resolves the future at once, which core.run() returns wrapped by
\* chain_err; the last item resolves it with all the items; otherwise it is
\* not ready.
poll_collect(collected, result, all_settled) ==
    IF result.tag = "Err"
    THEN Some(Err(Msg(result.error)))
    ELSE IF all_settled THEN Some(Ok(collected)) ELSE None

\* A request's future resolves, and the stream over the queue yields its
\* result.  When the call returns with requests still in the queue, the
\* queue is dropped with them.
Settle(i, result) ==
    LET settled == [requests EXCEPT ![i].phase = "settled",
                                    ![i].result = Some(result)]
        collected == IF result.tag = "Ok"
                     THEN fetch.collected \o result.value
                     ELSE fetch.collected
        returned == poll_collect(collected, result,
                        \A j \in 1..Len(requests) :
                            settled[j].phase = "settled")
    IN  /\ fetch' = [fetch EXCEPT !.collected = collected,
                                  !.result = returned]
        /\ requests' = [j \in 1..Len(requests) |->
                          IF returned # None /\ settled[j].phase # "settled"
                          THEN [settled[j] EXCEPT !.phase = "dropped"]
                          ELSE settled[j]]

\* An attempt of a request is answered.  RetryIf asks the condition whether
\* to retry an error, and the strategy for the next delay.
Respond(i, response) ==
    LET attempt == create_get_request(response)
        strategy == retry_strategy(1000, 6)
        retries == Len(requests[i].waited)
    IN  /\ fetch.call # "none" /\ fetch.result = None
        /\ i \in 1..Len(requests)
        /\ poll_ready(requests, i, "attempt")
        /\ IF attempt.tag = "Ok"
           THEN /\ requests' = [requests EXCEPT ![i].phase = "body"]
                /\ UNCHANGED fetch
           ELSE IF retry_condition(attempt.error) /\ retries < Len(strategy)
           THEN /\ requests' = [requests EXCEPT ![i].phase = "sleep"]
                /\ UNCHANGED fetch
           ELSE Settle(i, attempt)
        /\ UNCHANGED <<subscribed_shows, unwatched_episodes, last, file_vars>>

\* The delay before a retry is over, or the timer fails.
TimerFires(i, ok) ==
    LET strategy == retry_strategy(1000, 6)
        retries == Len(requests[i].waited)
    IN  /\ fetch.call # "none" /\ fetch.result = None
        /\ i \in 1..Len(requests)
        /\ poll_ready(requests, i, "sleep")
        /\ IF ok
           THEN /\ requests' = [requests EXCEPT
                                  ![i].phase = "attempt",
                                  ![i].waited = Append(@, strategy[retries + 1])]
                /\ UNCHANGED fetch
           ELSE Settle(i, Err([kind |-> "TokioTimerError"]))
        /\ UNCHANGED <<subscribed_shows, unwatched_episodes, last, file_vars>>

\* res.body().concat2(), then the closure that decodes the body.
ReadBody(i, outcome) ==
    /\ fetch.call # "none" /\ fetch.result = None
    /\ i \in 1..Len(requests)
    /\ poll_ready(requests, i, "body")
    /\ IF outcome = "read_fails"
       THEN Settle(i, Err([kind |-> "HyperError"]))
       ELSE IF outcome = "malformed"
       THEN Settle(i, Err(Msg("SerdeJsonError")))
       ELSE Settle(i, Ok(IF fetch.call = "get_shows"
                         THEN decode_show(requests[i].id)
                         ELSE decode_episodes(requests[i].id)))
    /\ UNCHANGED <<subscribed_shows, unwatched_episodes, last, file_vars>>

\* The call returns its result to the caller.
Return ==
    /\ fetch.result # None
    /\ fetch' = NoFetch
    /\ requests' = <<>>
    /\ UNCHANGED <<subscribed_shows, unwatched_episodes, last, file_vars>>

NextApi ==
    \/ \E ids \in IdVectors : GetShows(ids)
    \/ \E ids \in IdVectors : GetEpisodes(ids)
    \/ \E i \in 1..MaxIds : \E response \in Responses : Respond(i, response)
    \/ \E i \in 1..MaxIds : \E ok \in BOOLEAN : TimerFires(i, ok)
    \/ \E i \in 1..MaxIds : \E outcome \in BodyOutcomes : ReadBody(i, outcome)
    \/ Return

SpecApi == Init /\ [][NextApi]_vars

(***************************************************************************)
(* The program run command after command.  Each action is one run of       *)
(* main(): the state file is loaded, the command is applied, the process   *)
(* ends.  subscribed_shows and unwatched_episodes are the data the process *)
(* held when the command returned.  The clock does not go back from one    *)
(* run to the next.                                                        *)
(***************************************************************************)
\* What is recorded of a command: its name, the show it was for, what the
\* clock showed, what it returned and whether it stored.
Command(op, show_id, now, ret, stored) ==
    [op |-> op, given |-> <<FALSE, FALSE>>, ret |-> ret,
     stored |-> stored, show_id |-> show_id, now |-> now]

InitApp ==
    /\ subscribed_shows = <<>>
    /\ unwatched_episodes = <<>>
    /\ \E now \in Times :
          /\ \A t \in Times : now <= t
          /\ last = Command("new", 0, now, None, "none")
    /\ files = [name \in FileNames |-> Absent]
    /\ pc = "no_user_data"
    /\ fetch = NoFetch
    /\ requests = <<>>

\* App::new: the data UserData::load reads from the state file.
user_data == load(files[user_data_json(Path)], "ok").value

\* The shows a search finds.
SearchResults == {deserialize_show(served_show(id, 0)) : id \in ShowIds}

\* How a run of `add` can go: the search finds nothing the user selects;
\* the fetch of the episodes fails; or it succeeds.
AddInputs(found, outcomes) ==
    {[selected_show |-> None, answer |-> <<0, 0>>,
      fetched |-> [ok |-> FALSE], outcome |-> "ok"]}
        \cup {[selected_show |-> Some(s), answer |-> <<0, 0>>,
               fetched |-> [ok |-> FALSE], outcome |-> "ok"] : s \in found}
        \cup {[selected_show |-> Some(s), answer |-> a,
               fetched |-> [ok |-> TRUE, revision |-> r, reversed |-> FALSE],
               outcome |-> o] :
                    s \in found, a \in Answers, r \in Revisions,
                    o \in outcomes}

\* bingers add SHOW
RunAdd(in, now) ==
    /\ now >= last.now
    /\ \E d \in {user_data} :
       \E r \in {App_add_show(d.subscribed_shows,
                             d.unwatched_episodes, files,
                             in.selected_show, in.answer, in.fetched, now,
                             in.outcome)} :
           /\ pc = "no_user_data"
           /\ subscribed_shows' = r.shows
           /\ unwatched_episodes' = r.eps
           /\ files' = r.files
           /\ last' = Command("add",
                              IF in.selected_show = None
                              THEN 0 ELSE in.selected_show[1].id,
                              now, r.ret, r.stored)
           /\ UNCHANGED <<pc, api_vars>>

\* bingers remove SHOW
RunRemove(show_id, outcome) ==
    \E d \in {user_data} :
    \E r \in {App_remove_show(d.subscribed_shows,
                             d.unwatched_episodes, files, show_id,
                             outcome)} :
        /\ pc = "no_user_data"
        /\ subscribed_shows' = r.shows
        /\ unwatched_episodes' = r.eps
        /\ files' = r.files
        /\ last' = Command("remove", show_id, last.now, r.ret, r.stored)
        /\ UNCHANGED <<pc, api_vars>>

\* The arguments clap lets through: --episode requires --season.
WatchedArguments ==
    {<<None, None>>, <<Some(1), None>>}
        \cup {<<Some(1), Some(n)>> : n \in {1, MaxNumber}}

\* bingers watched SHOW [--season S [--episode E]]
RunWatched(show_id, season, episode, outcome) ==
    \E d \in {user_data} :
    \E r \in {App_mark_as_watched(d.subscribed_shows,
                                 d.unwatched_episodes, files,
                                 show_id, season, episode, outcome)} :
        /\ pc = "no_user_data"
        /\ subscribed_shows' = r.shows
        /\ unwatched_episodes' = r.eps
        /\ files' = r.files
        /\ last' = Command("watched", show_id, last.now, r.ret, r.stored)
        /\ UNCHANGED <<pc, api_vars>>

\* How a run of `update` can go: the fetch of the shows fails; the fetch of
\* the episodes fails; or both succeed.
UpdateInputs(outcomes) ==
    {[force |-> FALSE, shows_ok |-> FALSE, updated |-> 0,
      fetched |-> [ok |-> FALSE], outcome |-> "ok"]}
        \cup {[force |-> f, shows_ok |-> TRUE, updated |-> u,
               fetched |-> [ok |-> FALSE], outcome |-> "ok"] :
                    f \in BOOLEAN, u \in Markers}
        \cup {[force |-> f, shows_ok |-> TRUE, updated |-> u,
               fetched |-> e, outcome |-> o] :
                    f \in BOOLEAN, u \in Markers,
                    e \in EpisodeFetches \ {[ok |-> FALSE]},
                    o \in outcomes}

\* bingers update [--force]
RunUpdate(in, now) ==
    /\ now >= last.now
    /\ \E d \in {user_data} :
       \E r \in {App_update(d.subscribed_shows,
                           d.unwatched_episodes, files, in.force,
                           in.shows_ok, in.updated, in.fetched, now, in.outcome)} :
           /\ pc = "no_user_data"
           /\ subscribed_shows' = r.shows
           /\ unwatched_episodes' = r.eps
           /\ files' = r.files
           /\ last' = Command("update", 0, now, r.ret, r.stored)
           /\ UNCHANGED <<pc, api_vars>>

\* The commands, every store() succeeding.
NextApp ==
    \/ \E in \in AddInputs(SearchResults, {"ok"}) : \E now \in Times :
            RunAdd(in, now)
    \/ \E show_id \in ShowIds : RunRemove(show_id, "ok")
    \/ \E show_id \in ShowIds : \E a \in WatchedArguments :
            RunWatched(show_id, a[1], a[2], "ok")
    \/ \E in \in UpdateInputs({"ok"}) : \E now \in Times : RunUpdate(in, now)

SpecApp == InitApp /\ [][NextApp]_vars

\* The commands on The Orville, store() succeeding or failing.
NextStore ==
    \/ \E in \in AddInputs({s \in SearchResults : s.id = TheOrvilleId},
                           StoreOutcomes) :
       \E now \in Times : RunAdd(in, now)
    \/ \E outcome \in StoreOutcomes : RunRemove(TheOrvilleId, outcome)
    \/ \E a \in WatchedArguments : \E outcome \in StoreOutcomes :
            RunWatched(TheOrvilleId, a[1], a[2], outcome)
    \/ \E in \in UpdateInputs(StoreOutcomes) : \E now \in Times :
            RunUpdate(in, now)

SpecStore == InitApp /\ [][NextStore]_vars

(***************************************************************************)
(* Vocabulary of the properties.                                           *)
(***************************************************************************)
Number(e) == <<e.season, e.number>>
Identity(e) == <<e.episode_id, e.show_id>>
PairLess(a, b) == a[1] < b[1] \/ (a[1] = b[1] /\ a[2] < b[2])
PairLeq(a, b) == a = b \/ PairLess(a, b)
IsSubscribed(shows, id) == \E i \in 1..Len(shows) : shows[i].id = id
PointerIn(shows, id) ==
    shows[CHOOSE i \in 1..Len(shows) : shows[i].id = id].last_watched_episode
EpisodesOf(eps, id) == {e \in Range(eps) : e.show_id = id}
Identities(eps) == [i \in 1..Len(eps) |-> Identity(eps[i])]
IsMark == last'.op = "mark_as_watched"
\* The episodes of the store a call flagged: not watched before it, and
\* after it either flagged watched or gone from the list.
Flagged ==
    {e \in Range(unwatched_episodes) :
        /\ ~e.watched
        /\ \A f \in Range(unwatched_episodes') :
              Identity(f) = Identity(e) => f.watched}
\* The episodes of the store a call removed.
Removed ==
    {e \in Range(unwatched_episodes) :
        \A f \in Range(unwatched_episodes') : Identity(f) # Identity(e)}
\* The episodes of a show that are not flagged watched.
NotWatched(eps, id) == {e \in EpisodesOf(eps, id) : ~e.watched}

(***************************************************************************)
(* C1.  Pointer monotonicity: whatever mark_as_watched is called with, the *)
(* watch pointer of every subscribed show after the call is greater than   *)
(* or equal to its value before the call, in lexicographic (season,        *)
(* number) order, and the show is still subscribed.                        *)
(***************************************************************************)
C1_PointerMonotone ==
    [][IsMark =>
        \A id \in ShowIds :
            IsSubscribed(subscribed_shows, id) =>
                /\ IsSubscribed(subscribed_shows', id)
                /\ PairLeq(PointerIn(subscribed_shows, id),
                           PointerIn(subscribed_shows', id))]_vars

\* A mark call has just advanced a pointer to the episode it marked, and
\* removed that episode.
C1_Witness ==
    /\ last.op = "mark_as_watched" /\ last.ret # None
    /\ \E i \in 1..Len(subscribed_shows) :
          /\ subscribed_shows[i].last_watched_episode = last.ret[1]
          /\ \A e \in EpisodesOf(unwatched_episodes, subscribed_shows[i].id) :
                Number(e) # last.ret[1]

(***************************************************************************)
(* C2.  A mark behind a gap changes nothing but flags: when mark_as_watched*)
(* marks something for a subscribed show while a not-watched episode of    *)
(* the show (one the call did not mark) lies strictly between the show's   *)
(* pointer and the last marked (season, number), the subscribed shows and  *)
(* their pointers are unchanged, no episode is removed or moved, and the   *)
(* marked episodes are still in the list, flagged watched.                 *)
(***************************************************************************)
C2_GapBetween(id, a, last_marked) ==
    \E e \in EpisodesOf(unwatched_episodes, id) :
        /\ ~e.watched
        /\ ~(a[1] # None /\ a[2] = None /\ e.season = a[1][1])
        /\ PairLess(PointerIn(subscribed_shows, id), Number(e))
        /\ PairLess(Number(e), last_marked)

C2_GapKeepsEpisodes ==
    [][(IsMark /\ last'.ret # None) =>
        \A id \in ShowIds : \A a \in MarkArguments :
          (/\ IsSubscribed(subscribed_shows, id)
           /\ C2_GapBetween(id, a, last'.ret[1])
           /\ MarkAsWatched(id, a[1], a[2]))
          => /\ subscribed_shows' = subscribed_shows
             /\ Identities(unwatched_episodes')
                    = Identities(unwatched_episodes)
             /\ \A i \in 1..Len(unwatched_episodes) :
                  \/ unwatched_episodes'[i] = unwatched_episodes[i]
                  \/ /\ ~unwatched_episodes[i].watched
                     /\ unwatched_episodes'[i] =
                          [unwatched_episodes[i] EXCEPT !.watched = TRUE]
             /\ \E i \in 1..Len(unwatched_episodes) :
                  /\ unwatched_episodes[i].show_id = id
                  /\ ~unwatched_episodes[i].watched
                  /\ unwatched_episodes'[i].watched
                  /\ Number(unwatched_episodes'[i]) = last'.ret[1]]_vars

\* A mark call has just flagged an episode that stays in the list behind a
\* not-watched episode which lies beyond the pointer.
C2_Witness ==
    /\ last.op = "mark_as_watched" /\ last.ret # None
    /\ \E i \in 1..Len(subscribed_shows) :
        \E e, g \in EpisodesOf(unwatched_episodes, subscribed_shows[i].id) :
            /\ e.watched /\ Number(e) = last.ret[1]
            /\ ~g.watched
            /\ PairLess(subscribed_shows[i].last_watched_episode, Number(g))
            /\ PairLess(Number(g), Number(e))

(***************************************************************************)
(* C5.  Uniqueness of episodes: the unwatched collection never holds two   *)
(* elements with the same (episode id, show id).                           *)
(***************************************************************************)
C5_UniqueEpisodes ==
    \A i, j \in 1..Len(unwatched_episodes) :
        Identity(unwatched_episodes[i]) = Identity(unwatched_episodes[j])
            => i = j

\* add_episodes has just run and the list holds every episode identity the
\* catalog serves.
C5_Witness ==
    /\ last.op = "add_episodes"
    /\ {Identity(e) : e \in Range(unwatched_episodes)}
          = {Identity(e) : e \in Episodes}

(***************************************************************************)
(* C6.  Uniqueness of shows: the subscribed collection never holds two     *)
(* shows with the same id.                                                 *)
(***************************************************************************)
C6_UniqueShows ==
    \A i, j \in 1..Len(subscribed_shows) :
        subscribed_shows[i].id = subscribed_shows[j].id => i = j

\* add_show has just run and every show is subscribed, one of them in a
\* revision that differs from the one first served.
C6_Witness ==
    /\ last.op = "add_show"
    /\ {subscribed_shows[i].id : i \in 1..Len(subscribed_shows)} = ShowIds
    /\ \E i \in 1..Len(subscribed_shows) : subscribed_shows[i] \notin Shows

(***************************************************************************)
(* C7.  Adding what is stored is a no-op: add_show of a show whose id is   *)
(* subscribed leaves the subscribed collection as it is (the stored        *)
(* record, its pointer included, is not overwritten); add_episodes leaves  *)
(* every stored episode record as it is (its watched flag included), adds  *)
(* one element per new identity of the batch, and changes nothing at all   *)
(* when every episode of the batch is already stored.                      *)
(***************************************************************************)
C7_AddStoredIsNoOp ==
    [][/\ last'.op = "add_show" =>
            \A show \in Shows :
                (IsSubscribed(subscribed_shows, show.id) /\ AddShow(show))
                    => subscribed_shows' = subscribed_shows
       /\ last'.op = "add_episodes" =>
            \A batch \in Batches :
                AddEpisodes(batch) =>
                  LET stored ==
                        {Identity(e) : e \in Range(unwatched_episodes)}
                      new == {Identity(e) : e \in Range(batch)} \ stored
                  IN  /\ Len(unwatched_episodes')
                            = Len(unwatched_episodes) + Cardinality(new)
                      /\ Range(unwatched_episodes) \subseteq
                            Range(unwatched_episodes')
                      /\ new = {} =>
                            unwatched_episodes' = unwatched_episodes]_vars

\* add_episodes has just run and the list holds a single episode, flagged
\* watched: the call added an episode that was already stored.
C7_Witness ==
    /\ last.op = "add_episodes"
    /\ Len(unwatched_episodes) = 1
    /\ unwatched_episodes[1].watched

(***************************************************************************)
(* C3.  Collapse on gap closure: when a subscribed show has watched-       *)
(* flagged episodes beyond its pointer and a mark_as_watched call flags    *)
(* every not-watched episode that lies between the pointer and the first   *)
(* of them, the call moves the pointer onto or past that episode, to the   *)
(* end of the now contiguous watched run, and removes the whole run: no    *)
(* episode of the show is left in (old pointer, new pointer], and whatever *)
(* watched-flagged episode is left lies behind a not-watched one.          *)
(***************************************************************************)
C3_CollapseOnGapClosure ==
    [][(IsMark /\ last'.ret # None) =>
        \A id \in ShowIds :
          IsSubscribed(subscribed_shows, id) =>
            LET p == PointerIn(subscribed_shows, id)
                q == PointerIn(subscribed_shows', id)
                beyond == {e \in EpisodesOf(unwatched_episodes, id) :
                              PairLess(p, Number(e))}
                watched == {e \in beyond : e.watched}
                gap == {g \in beyond :
                          /\ ~g.watched
                          /\ \E w \in watched : PairLess(Number(g), Number(w))
                          /\ \A w \in watched : Number(g) # Number(w)}
                closes == /\ watched # {}
                          /\ gap # {}
                          /\ \A g \in beyond :
                                (~g.watched /\ \E w \in watched :
                                    PairLeq(Number(g), Number(w)))
                                => g \in Flagged
            IN  closes =>
                  /\ \A w \in watched : PairLeq(Number(w), q) \/
                        \E g \in NotWatched(unwatched_episodes', id) :
                            /\ PairLess(q, Number(g))
                            /\ PairLess(Number(g), Number(w))
                  /\ \E w \in watched : PairLeq(Number(w), q)
                  /\ \A e \in EpisodesOf(unwatched_episodes', id) :
                        ~(PairLess(p, Number(e)) /\ PairLeq(Number(e), q))
                  /\ \A e \in EpisodesOf(unwatched_episodes', id) :
                        (e.watched /\ PairLess(q, Number(e))) =>
                            \E g \in NotWatched(unwatched_episodes', id) :
                                /\ PairLess(q, Number(g))
                                /\ PairLess(Number(g), Number(e))]_vars

(***************************************************************************)
(* C4.  What a mark without a gap removes: when mark_as_watched marks      *)
(* something for a subscribed show and no not-watched episode lies between *)
(* the pointer and the last marked one, the new pointer is the last        *)
(* episode of the maximal run of watched-flagged episodes that follows the *)
(* old pointer (the old pointer if there is none), the episodes removed    *)
(* are exactly the show's stored episodes in (old pointer, new pointer],   *)
(* and the first not-watched episode after the pointer and every later     *)
(* episode of the show stay in the list.                                   *)
(***************************************************************************)
C4_RemovesExactlyTheRun ==
    [][(IsMark /\ last'.ret # None) =>
        \A id \in ShowIds : \A a \in MarkArguments :
          (/\ IsSubscribed(subscribed_shows, id)
           /\ ~C2_GapBetween(id, a, last'.ret[1])
           /\ MarkAsWatched(id, a[1], a[2]))
          => LET p == PointerIn(subscribed_shows, id)
                 q == PointerIn(subscribed_shows', id)
                 beyond == {e \in EpisodesOf(unwatched_episodes, id) :
                               PairLess(p, Number(e))}
                 open == {e \in beyond : ~e.watched /\ e \notin Flagged}
                 run == {e \in beyond :
                            /\ e.watched \/ e \in Flagged
                            /\ \A g \in open : PairLess(Number(e), Number(g))}
             IN  /\ IF run = {} THEN q = p
                    ELSE /\ \E e \in run : q = Number(e)
                         /\ \A e \in run : PairLeq(Number(e), q)
                 /\ Removed = {e \in EpisodesOf(unwatched_episodes, id) :
                                PairLess(p, Number(e))
                                    /\ PairLeq(Number(e), q)}
                 /\ \A e \in beyond :
                        (\E g \in open : PairLeq(Number(g), Number(e)))
                            => e \notin Removed]_vars

(***************************************************************************)
(* C8.  Mark next: mark_as_watched(show, None, None) flags exactly one     *)
(* episode, the not-yet-watched stored episode of the show with the        *)
(* smallest (season, number), and returns its (season, number); when the   *)
(* show has no not-yet-watched stored episode it flags nothing and returns *)
(* nothing.                                                                *)
(***************************************************************************)
C8_MarkNextIsSmallest ==
    [][IsMark =>
        \A id \in ShowIds :
          MarkAsWatched(id, None, None) =>
            LET U == NotWatched(unwatched_episodes, id)
            IN  IF U = {}
                THEN last'.ret = None /\ Flagged = {}
                ELSE \E m \in U :
                        /\ \A e \in U : PairLeq(Number(m), Number(e))
                        /\ Flagged = {m}
                        /\ last'.ret = Some(Number(m))]_vars

(***************************************************************************)
(* C9.  Mark season: mark_as_watched(show, s, None) flags every not-yet-   *)
(* watched stored episode of the show in season s and no other episode,    *)
(* and returns the (season, number) of the greatest-numbered episode it    *)
(* flagged, or nothing if there was none.                                  *)
(***************************************************************************)
C9_MarkSeasonReturnsGreatest ==
    [][IsMark =>
        \A id \in ShowIds : \A s \in Seasons :
          MarkAsWatched(id, Some(s), None) =>
            LET M == {e \in NotWatched(unwatched_episodes, id) :
                        e.season = s}
            IN  /\ Flagged = M
                /\ IF M = {}
                   THEN last'.ret = None
                   ELSE \E m \in M :
                            /\ \A e \in M : e.number <= m.number
                            /\ last'.ret = Some(Number(m))]_vars

(***************************************************************************)
(* C10.  Mark episode: mark_as_watched(show, s, n) changes the watched     *)
(* flag of at most one stored episode, a not-yet-watched episode of the    *)
(* show numbered (s, n), and returns (s, n); it changes nothing and        *)
(* returns nothing when no such episode is stored.                         *)
(***************************************************************************)
C10_MarkEpisodeFlagsOne ==
    [][IsMark =>
        \A id \in ShowIds : \A s \in Seasons : \A n \in Numbers :
          MarkAsWatched(id, Some(s), Some(n)) =>
            LET M == {e \in NotWatched(unwatched_episodes, id) :
                        Number(e) = <<s, n>>}
            IN  /\ Flagged \subseteq M
                /\ Cardinality(Flagged) <= 1
                /\ IF M = {}
                   THEN last'.ret = None
                   ELSE last'.ret = Some(<<s, n>>) /\ Flagged # {}]_vars

(***************************************************************************)
(* C11.  An episode without a season: mark_as_watched(show, None, Some(n)) *)
(* returns nothing and leaves the subscribed shows, every watch pointer    *)
(* and the unwatched list as they were.  (The call yields a plain Option:  *)
(* there is no error to raise.)                                            *)
(***************************************************************************)
C11_EpisodeWithoutSeason ==
    [][(IsMark /\ last'.given = <<FALSE, TRUE>>) =>
        /\ last'.ret = None
        /\ subscribed_shows' = subscribed_shows
        /\ unwatched_episodes' = unwatched_episodes]_vars

\* The call was made on a store where the show is subscribed and has a
\* not-watched episode beyond its pointer, which a mark would have flagged.
C11_Witness ==
    /\ last.op = "mark_as_watched"
    /\ last.given = <<FALSE, TRUE>>
    /\ last.ret = None
    /\ \E id \in ShowIds :
          /\ IsSubscribed(subscribed_shows, id)
          /\ \E e \in NotWatched(unwatched_episodes, id) :
                PairLess(PointerIn(subscribed_shows, id), Number(e))

\* The state file.
StateFile == files[user_data_json(Path)]

(***************************************************************************)
(* C12.  The state file is never half-written: it is absent or holds a     *)
(* whole document at every point, between the steps of store() and after a *)
(* failure or the end of the process included, and a step changes it only  *)
(* by putting the whole document of the store being saved in its place;    *)
(* until then it is what it was before.                                    *)
(***************************************************************************)
C12_StateFileNeverPartial ==
    /\ StateFile.kind \in {"absent", "complete"}
    /\ [][/\ StateFile'.kind \in {"absent", "complete"}
          /\ \/ StateFile' = StateFile
             \/ StateFile' = Complete(to_string(subscribed_shows,
                                                unwatched_episodes))]_vars

\* store() has failed while writing: the temporary file holds a part of the
\* new document, the state file holds the whole document saved before, which
\* differs from the new one.
C12_Witness ==
    /\ last.op = "store" /\ last.ret.tag = "Err"
    /\ files[user_data_tmp(Path)] = Partial
    /\ StateFile.kind = "complete"
    /\ StateFile.json.version = VERSION
    /\ StateFile # Complete(to_string(subscribed_shows, unwatched_episodes))

(***************************************************************************)
(* C13.  Round trip: once store() has succeeded, load() of the state file  *)
(* succeeds and yields the same set of subscribed shows (watch pointers    *)
(* and last-updated markers included) and the same set of unwatched        *)
(* episodes (watched flags included) as the store saved, the empty store   *)
(* included.                                                               *)
(***************************************************************************)
C13_RoundTrip ==
    (last.op = "store" /\ last.ret.tag = "Ok") =>
        LET loaded == load(StateFile, "ok")
        IN  /\ loaded.tag = "Ok"
            /\ Range(loaded.value.subscribed_shows) = Range(subscribed_shows)
            /\ Range(loaded.value.unwatched_episodes)
                    = Range(unwatched_episodes)

\* A store has been saved whose show has a pointer and a marker that are not
\* the defaults, and which holds a watched and a not-watched episode.
C13_Witness ==
    /\ last.op = "store" /\ last.ret.tag = "Ok"
    /\ \E i \in 1..Len(subscribed_shows) :
          /\ subscribed_shows[i].last_watched_episode # <<0, 0>>
          /\ subscribed_shows[i].last_updated # 0
    /\ \E e \in Range(unwatched_episodes) : e.watched
    /\ \E e \in Range(unwatched_episodes) : ~e.watched

(***************************************************************************)
(* C14.  Version rejection: load() of a state file that is opened and read *)
(* and whose document has a version greater than VERSION fails with        *)
(* UserDataVersionMismatch(VERSION, version), whether or not the rest of   *)
(* the document decodes, and the process gets no store.                    *)
(***************************************************************************)
C14_NewerVersionRejected ==
    [][(/\ last'.op = "load"
        /\ Load("ok")
        /\ StateFile.kind = "complete"
        /\ "version" \in DOMAIN StateFile.json
        /\ StateFile.json.version > VERSION)
       => /\ last'.ret = Err([kind |-> "UserDataVersionMismatch",
                              expected |-> VERSION,
                              actual |-> StateFile.json.version])
          /\ pc' = "no_user_data"
          /\ subscribed_shows' = <<>> /\ unwatched_episodes' = <<>>]_vars

\* load() has rejected a document of a layout this build cannot decode.
C14_Witness ==
    /\ last.op = "load" /\ last.ret.tag = "Err"
    /\ last.ret.error.kind = "UserDataVersionMismatch"
    /\ StateFile.kind = "complete"
    /\ "subscribed_shows" \notin DOMAIN StateFile.json

(***************************************************************************)
(* C15.  A missing state file is an empty store: load() succeeds with no   *)
(* shows, no episodes and version 1 when File::open finds no file; when    *)
(* opening fails in another way, or reading fails, load() returns an error *)
(* and the process gets no store.                                          *)
(***************************************************************************)
C15_MissingFileIsEmptyStore ==
    [][last'.op = "load" =>
        /\ (StateFile = Absent /\ (Load("ok") \/ Load("read_fails")))
            => /\ last'.ret = Ok([version |-> 1,
                                  subscribed_shows |-> <<>>,
                                  unwatched_episodes |-> <<>>])
               /\ pc' = "loaded"
               /\ subscribed_shows' = <<>> /\ unwatched_episodes' = <<>>
        /\ (Load("open_fails") \/ (StateFile # Absent /\ Load("read_fails")))
            => /\ last'.ret.tag = "Err"
               /\ pc' = "no_user_data"]_vars

\* load() has found no state file and returned the empty store.
C15_Witness ==
    /\ last.op = "load" /\ last.ret.tag = "Ok"
    /\ StateFile = Absent
    /\ pc = "loaded"
    /\ subscribed_shows = <<>> /\ unwatched_episodes = <<>>

\* The number of attempts a request has made.
Attempts(request) == Len(request.waited) + 1
\* Is the call under way in this step and the next?
Fetching == fetch.call # "none" /\ requests' # <<>>

(***************************************************************************)
(* C16.  Only a rate-limit response is retried: a request goes to wait for *)
(* a retry only on an attempt answered with status 429; an attempt that    *)
(* meets another status than 200 or an error of the transport, and a body  *)
(* that cannot be read or decoded, settle the request with that error; a   *)
(* request that has settled makes no further attempt.                      *)
(***************************************************************************)
C16_OnlyRateLimitIsRetried ==
    [][Fetching =>
        \A i \in 1..Len(requests) :
            /\ (requests[i].phase = "attempt" /\ requests'[i].phase = "sleep")
                => Respond(i, [kind |-> "response", status |-> 429])
            /\ \A response \in Responses :
                  (/\ response \notin {[kind |-> "response", status |-> s] :
                                            s \in {200, 429}}
                   /\ Respond(i, response))
                  => /\ requests'[i].phase = "settled"
                     /\ requests'[i].result
                            = Some(create_get_request(response))
                     /\ requests'[i].waited = requests[i].waited
            /\ \A outcome \in BodyOutcomes \ {"ok"} :
                  ReadBody(i, outcome)
                  => /\ requests'[i].phase = "settled"
                     /\ requests'[i].result[1].tag = "Err"
                     /\ requests'[i].waited = requests[i].waited
            /\ requests[i].phase \in {"settled", "dropped"}
                  => requests'[i] = requests[i]]_vars

\* A request was retried after a 429 and then answered with status 500: it
\* has failed with that error.
C16_Witness ==
    \E i \in 1..Len(requests) :
        /\ requests[i].phase = "settled"
        /\ requests[i].result = Some(Err(HttpError(500)))
        /\ Attempts(requests[i]) = 2

(***************************************************************************)
(* C17, as stated.  A request answered with status 429 on every attempt is *)
(* attempted six times in total and then fails with the HTTP status error. *)
(***************************************************************************)
C17_SixAttempts ==
    \A i \in 1..Len(requests) :
        /\ Attempts(requests[i]) <= 6
        /\ requests[i].result = Some(Err(HttpError(429)))
              => Attempts(requests[i]) = 6

(***************************************************************************)
(* C17, amended.  A request answered with status 429 on every attempt is   *)
(* attempted seven times in total, the first attempt and six retries after *)
(* waits of 1, 1, 2, 3, 5 and 8 seconds, and then fails with the HTTP      *)
(* status error: it never waits after its seventh attempt.                 *)
(***************************************************************************)
C17_SevenAttempts ==
    \A i \in 1..Len(requests) :
        /\ Attempts(requests[i]) <= 7
        /\ ~(requests[i].phase = "sleep" /\ Attempts(requests[i]) = 7)
        /\ requests[i].result = Some(Err(HttpError(429)))
              => /\ Attempts(requests[i]) = 7
                 /\ requests[i].waited
                        = <<1000, 1000, 2000, 3000, 5000, 8000>>

\* A request has failed with the status error of a 429.
C17_Witness ==
    \E i \in 1..Len(requests) :
        /\ requests[i].phase = "settled"
        /\ requests[i].result = Some(Err(HttpError(429)))

(***************************************************************************)
(* C18.  Retry, then success: a request whose first N attempts are         *)
(* answered with status 429, N < 6, has not failed; when its next attempt  *)
(* is answered with status 200 and a body that is read and decoded, it     *)
(* completes with the payload of that response; and the waits before its   *)
(* retries are the first of 1, 1, 2, 3, 5, 8 seconds, in that order.       *)
(***************************************************************************)
C18_RetryThenSucceed ==
    [][Fetching =>
        \A i \in 1..Len(requests) :
            LET delays == <<1000, 1000, 2000, 3000, 5000, 8000>>
                N == Len(requests[i].waited)
            IN  /\ (N < 6 /\ Respond(i, [kind |-> "response", status |-> 429]))
                    => requests'[i].phase = "sleep"
                /\ (requests[i].phase = "sleep" /\ TimerFires(i, TRUE))
                    => /\ requests'[i].phase = "attempt"
                       /\ requests'[i].waited = SubSeq(delays, 1, N + 1)
                /\ (N < 6 /\ Respond(i, [kind |-> "response", status |-> 200]))
                    => requests'[i].phase = "body"
                /\ (N < 6 /\ ReadBody(i, "ok"))
                    => /\ requests'[i].phase = "settled"
                       /\ requests'[i].waited = SubSeq(delays, 1, N)
                       /\ requests'[i].result =
                            Some(Ok(IF fetch.call = "get_shows"
                                    THEN decode_show(requests[i].id)
                                    ELSE decode_episodes(requests[i].id)))]_vars

\* A request has succeeded on its sixth attempt, after five waits.
C18_Witness ==
    \E i \in 1..Len(requests) :
        /\ requests[i].phase = "settled"
        /\ requests[i].result[1].tag = "Ok"
        /\ Attempts(requests[i]) = 6

(***************************************************************************)
(* C19.  All or nothing: a call returns Ok only when every request has     *)
(* succeeded, and then with the result of every request: for get_shows one *)
(* show per id asked for, for get_episodes all the episodes of every id;   *)
(* it returns Err, which carries no results, as soon as one request has    *)
(* failed; a list of a part of the results is never returned.              *)
(***************************************************************************)
C19_AllOrNothing ==
    /\ (\E i \in 1..Len(requests) :
            requests[i].phase = "settled" /\ requests[i].result[1].tag = "Err")
        => (fetch.result # None /\ fetch.result[1].tag = "Err")
    /\ (fetch.result # None /\ fetch.result[1].tag = "Err")
        => DOMAIN fetch.result[1] = {"tag", "error"}
    /\ (fetch.result # None /\ fetch.result[1].tag = "Ok")
        => LET items == fetch.result[1].value
           IN  /\ \A i \in 1..Len(requests) :
                      /\ requests[i].phase = "settled"
                      /\ requests[i].result[1].tag = "Ok"
               /\ \A id \in ShowIds :
                    LET asked == Cardinality({i \in 1..Len(requests) :
                                                requests[i].id = id})
                    IN  IF fetch.call = "get_shows"
                        THEN Cardinality({k \in 1..Len(items) :
                                            items[k].id = id}) = asked
                        ELSE \A e \in Range(decode_episodes(id)) :
                                Cardinality({k \in 1..Len(items) :
                                                items[k] = e}) = asked
               /\ Len(items) =
                    IF fetch.call = "get_shows"
                    THEN Len(requests)
                    ELSE Cardinality({<<i, k>> \in
                            (1..Len(requests)) \X (1..MaxNumber) :
                                k <= Len(decode_episodes(requests[i].id))})

\* A call has returned Err although one of its requests had succeeded.
C19_Witness ==
    /\ fetch.result # None /\ fetch.result[1].tag = "Err"
    /\ \E i \in 1..Len(requests) :
          requests[i].phase = "settled" /\ requests[i].result[1].tag = "Ok"

(***************************************************************************)
(* C20.  A call returns only after every request queued for it has         *)
(* settled, succeeded or failed: at its return no request is in flight or  *)
(* abandoned.                                                              *)
(***************************************************************************)
C20_ReturnsAfterAllSettled ==
    fetch.result # None =>
        \A i \in 1..Len(requests) : requests[i].phase = "settled"

(***************************************************************************)
(* C21.  A request waiting for a retry does not hold up the other requests *)
(* of the call: while it waits, every other request that awaits a response *)
(* can be answered, and every other request whose body is being read can   *)
(* complete, the waiting request still waiting.                            *)
(***************************************************************************)
C21_BackoffDoesNotBlock ==
    fetch.result = None =>
        \A i, j \in 1..Len(requests) :
            (i # j /\ requests[i].phase = "sleep")
            => /\ requests[j].phase = "attempt"
                    => ENABLED (/\ Respond(j, [kind |-> "response",
                                               status |-> 200])
                                /\ requests'[j].phase = "body"
                                /\ requests'[i] = requests[i])
               /\ requests[j].phase = "body"
                    => ENABLED (/\ ReadBody(j, "ok")
                                /\ requests'[j].phase = "settled"
                                /\ requests'[j].result[1].tag = "Ok"
                                /\ requests'[i] = requests[i])

\* One request has completed, answered at its first attempt, and another
\* is waiting for its retry.
C21_Witness ==
    \E i, j \in 1..Len(requests) :
        /\ requests[i].phase = "sleep"
        /\ requests[j].phase = "settled"
        /\ requests[j].result[1].tag = "Ok"
        /\ requests[j].waited = <<>>

\* The id of the show whose episode list the catalog serves the episode in.
ServedFor(item) ==
    {id \in ShowIds :
        \E k \in 1..Len(catalog_episodes(id)) :
            catalog_episodes(id)[k].id = item.episode_id}

(***************************************************************************)
(* C22.  Every episode get_episodes has collected, and so every episode it *)
(* returns, carries as show_id the id of the request whose response held   *)
(* it, in whatever order the requests complete.                            *)
(***************************************************************************)
C22_EpisodesTaggedByRequest ==
    fetch.call = "get_episodes" =>
        /\ \A k \in 1..Len(fetch.collected) :
              /\ ServedFor(fetch.collected[k]) = {fetch.collected[k].show_id}
              /\ \E i \in 1..Len(requests) :
                    /\ requests[i].id = fetch.collected[k].show_id
                    /\ requests[i].phase = "settled"
        /\ (fetch.result # None /\ fetch.result[1].tag = "Ok")
              => fetch.result[1].value = fetch.collected

\* get_episodes has returned the episodes of two shows, those of the
\* second id first.
C22_Witness ==
    /\ fetch.call = "get_episodes"
    /\ fetch.result # None /\ fetch.result[1].tag = "Ok"
    /\ Len(requests) = 2
    /\ requests[1].id # requests[2].id
    /\ fetch.result[1].value[1].show_id = requests[2].id

(***************************************************************************)
(* Vocabulary of the properties of the commands.  A command works on the   *)
(* data it loads from the state file and leaves subscribed_shows' and      *)
(* unwatched_episodes'.                                                    *)
(***************************************************************************)
\* The episodes a command inserted: those it leaves whose identity was not
\* stored.
Inserted ==
    {e \in Range(unwatched_episodes') :
        \A f \in Range(user_data.unwatched_episodes) :
            Identity(f) # Identity(e)}
\* The identities of the listed episodes of The Orville.
FirstEpisode == Identity(Episode(TheOrvilleId, 1, 1))
LastEpisode == Identity(Episode(TheOrvilleId, 1, MaxNumber))

(***************************************************************************)
(* C23.  Neither update nor the fetch on subscribing inserts an episode    *)
(* without an air time, or with an air time later than what the clock      *)
(* shows.                                                                  *)
(***************************************************************************)
C23_OnlyAiredInserted ==
    [][last'.op \in {"add", "update"} =>
        \A e \in Inserted :
            /\ e.airstamp # None
            /\ e.airstamp[1] <= last'.now]_vars

\* An update has fetched the episodes of The Orville while the clock showed
\* the air time of the first one: the first is stored, the last, which lies
\* after the pointer too, is not.
C23_Witness ==
    /\ last.op = "update" /\ last.stored = "ok"
    /\ \A t \in Times : last.now <= t
    /\ \E i \in 1..Len(subscribed_shows) :
          /\ subscribed_shows[i].id = TheOrvilleId
          /\ subscribed_shows[i].last_updated = MaxUpdated
          /\ subscribed_shows[i].last_watched_episode = <<0, 0>>
    /\ \E e \in Range(unwatched_episodes) : Identity(e) = FirstEpisode
    /\ \A e \in Range(unwatched_episodes) : Identity(e) # LastEpisode

(***************************************************************************)
(* C24.  update inserts no episode at or behind the watch pointer of its   *)
(* show and no episode of a show that is not subscribed, in whatever order *)
(* the episodes of the shows arrive.                                       *)
(***************************************************************************)
C24_OnlyBeyondPointerInserted ==
    [][last'.op = "update" =>
        \A e \in Inserted :
            /\ IsSubscribed(user_data.subscribed_shows, e.show_id)
            /\ IsSubscribed(subscribed_shows', e.show_id)
            /\ PairLess(PointerIn(user_data.subscribed_shows, e.show_id),
                        Number(e))
            /\ PairLess(PointerIn(subscribed_shows', e.show_id),
                        Number(e))]_vars

\* An update has run with both shows subscribed, the pointer of The Orville
\* on its first episode: the last episode is stored, the first is not, and
\* the episode of the other show is stored.
C24_Witness ==
    /\ last.op = "update" /\ last.stored = "ok"
    /\ Len(subscribed_shows) = 2
    /\ PointerIn(subscribed_shows, TheOrvilleId) = <<1, 1>>
    /\ \E i \in 1..Len(subscribed_shows) :
          subscribed_shows[i].last_updated = MaxUpdated
    /\ \E e \in Range(unwatched_episodes) : Identity(e) = LastEpisode
    /\ \A e \in Range(unwatched_episodes) : Identity(e) # FirstEpisode
    /\ \E e \in Range(unwatched_episodes) : e.show_id = StarTrekDiscoveryId

(***************************************************************************)
(* C25.  update refreshes a stored episode in place: every episode stored  *)
(* before the update is stored once after it, with the watched flag it     *)
(* had, and the list grows by the inserted episodes only.                  *)
(***************************************************************************)
C25_StoredEpisodesRefreshedInPlace ==
    [][last'.op = "update" =>
        /\ \A e \in Range(user_data.unwatched_episodes) :
              /\ Cardinality({i \in 1..Len(unwatched_episodes') :
                    Identity(unwatched_episodes'[i]) = Identity(e)}) = 1
              /\ \A f \in Range(unwatched_episodes') :
                    Identity(f) = Identity(e) => f.watched = e.watched
        /\ Len(unwatched_episodes')
              = Len(user_data.unwatched_episodes)
                    + Cardinality({Identity(e) : e \in Inserted})]_vars

\* An update has refreshed an episode kept as watched behind a gap: the
\* last episode of The Orville is stored flagged watched, under the number
\* the catalog has given it since.
C25_Witness ==
    /\ last.op = "update" /\ last.stored = "ok"
    /\ \E e \in Range(unwatched_episodes) :
          /\ Identity(e) = LastEpisode
          /\ e.watched
          /\ e.number = 1

(***************************************************************************)
(* C26.  Unsubscribing a show (remove_episodes, then remove_show) leaves   *)
(* the show not subscribed and no episode with its id in the list; every   *)
(* other show and every episode of another show is as it was, in the order *)
(* it was; and either operation applied once more changes nothing.         *)
(***************************************************************************)
C26_Unsubscribe ==
    [][(last'.op = "remove" /\ last'.stored = "ok") =>
        LET id == last'.show_id
            show == deserialize_show(served_show(id, 0))
            other_show(s) == s.id # id
            of_other_show(e) == e.show_id # id
        IN  /\ ~IsSubscribed(subscribed_shows', id)
            /\ EpisodesOf(unwatched_episodes', id) = {}
            /\ subscribed_shows'
                    = SelectSeq(user_data.subscribed_shows, other_show)
            /\ unwatched_episodes'
                    = SelectSeq(user_data.unwatched_episodes, of_other_show)
            /\ remove_episodes(unwatched_episodes', show)
                    = unwatched_episodes'
            /\ remove_show(subscribed_shows', show) = subscribed_shows']_vars

\* A show has been unsubscribed; the other show is subscribed and has an
\* episode in the list.
C26_Witness ==
    /\ last.op = "remove" /\ last.stored = "ok"
    /\ \E id \in ShowIds \ {last.show_id} :
          /\ IsSubscribed(subscribed_shows, id)
          /\ EpisodesOf(unwatched_episodes, id) # {}

(***************************************************************************)
(* C27.  A command writes the state file as its last step: when it has     *)
(* stored, the state file holds the data the command leaves in memory;     *)
(* when it has not, or store() has failed, the state file is as it was;    *)
(* when a fetch fails during update no file is touched; and the data in    *)
(* memory after a failed store() is what a store() called once more        *)
(* writes.                                                                 *)
(***************************************************************************)
C27_StoreIsTheLastStep ==
    [][last'.op \in {"add", "remove", "watched", "update"} =>
        /\ last'.stored = "ok"
              => StateFile' = Complete(to_string(subscribed_shows',
                                                 unwatched_episodes'))
        /\ last'.stored # "ok" => StateFile' = StateFile
        /\ (last'.stored = "none" /\ last'.ret.tag = "Err")
              => files' = files
        /\ last'.stored = "failed"
              => store(files', subscribed_shows', unwatched_episodes',
                       "ok").files[user_data_json(Path)]
                    = Complete(to_string(subscribed_shows',
                                         unwatched_episodes'))]_vars

\* An update has changed the marker of a show in memory, and the fetch of
\* the episodes has failed: the state file holds the marker it held.
C27_Witness ==
    /\ last.op = "update" /\ last.stored = "none" /\ last.ret.tag = "Err"
    /\ subscribed_shows # <<>>
    /\ subscribed_shows # user_data.subscribed_shows
    /\ StateFile = Complete(to_string(user_data.subscribed_shows,
                                      user_data.unwatched_episodes))

(***************************************************************************)
(* C28.  After every operation of the store the unwatched list is sorted   *)
(* ascending by (show id, season, number).                                 *)
(***************************************************************************)
C28_SortedAfterEveryOperation ==
    \A i, j \in 1..Len(unwatched_episodes) :
        i < j => ~episode_cmp_less(unwatched_episodes[j],
                                   unwatched_episodes[i])

\* The pointer mark_as_watched works with: that of the show, or (0, 0) when
\* the show is not subscribed.
PointerOrZero(shows, id) ==
    IF IsSubscribed(shows, id) THEN PointerIn(shows, id) ELSE <<0, 0>>

(***************************************************************************)
(* C29.  After add_episodes and mark_as_watched calls, every episode in    *)
(* the list that is flagged watched has a not-watched episode of its show  *)
(* strictly between the show's pointer and itself.                         *)
(***************************************************************************)
C29_WatchedOnlyBehindGap ==
    \A e \in Range(unwatched_episodes) :
        e.watched =>
            \E f \in NotWatched(unwatched_episodes, e.show_id) :
                /\ PairLess(PointerOrZero(subscribed_shows, e.show_id),
                            Number(f))
                /\ PairLess(Number(f), Number(e))

(***************************************************************************)
(* C30.  After any sequence of commands every episode in the unwatched     *)
(* list lies strictly after the stored watch pointer of its show.          *)
(***************************************************************************)
C30_EpisodesBeyondPointer ==
    \A e \in Range(unwatched_episodes) :
        IsSubscribed(subscribed_shows, e.show_id) =>
            PairLess(PointerIn(subscribed_shows, e.show_id), Number(e))

(***************************************************************************)
(* C31.  After any sequence of commands every episode in the unwatched     *)
(* list has the show id of a subscribed show.                              *)
(***************************************************************************)
C31_EpisodesOfSubscribedShows ==
    \A e \in Range(unwatched_episodes) :
        IsSubscribed(subscribed_shows, e.show_id)

\* The Orville has been unsubscribed while it had episodes in the list, or
\* was never subscribed; Star Trek: Discovery is subscribed and its episode
\* is the only one in the list.
C31_Witness ==
    /\ last.op = "remove" /\ last.stored = "ok"
    /\ last.show_id = TheOrvilleId
    /\ ~IsSubscribed(subscribed_shows, TheOrvilleId)
    /\ IsSubscribed(subscribed_shows, StarTrekDiscoveryId)
    /\ Len(unwatched_episodes) = 1

(***************************************************************************)
(* C32.  mark_as_watched for a show leaves every other show as it was, its *)
(* pointer included, and leaves the episodes of every other show as they   *)
(* were: none removed, none flagged, in the order they were in.            *)
(***************************************************************************)
C32_MarkLeavesOtherShows ==
    [][IsMark =>
        \A show_id \in ShowIds : \A a \in MarkArguments :
        last'.given = <<a[1] # None, a[2] # None>> =>
        \A r \in {mark_as_watched(subscribed_shows, unwatched_episodes,
                                  show_id, a[1], a[2])} :
            (/\ last' = Call("mark_as_watched", a[1], a[2], r.ret)
             /\ subscribed_shows' = r.shows
             /\ unwatched_episodes' = r.eps) =>
                LET other_show(s) == s.id # show_id
                    of_other_show(e) == e.show_id # show_id
                IN  /\ SelectSeq(subscribed_shows', other_show)
                        = SelectSeq(subscribed_shows, other_show)
                    /\ SelectSeq(unwatched_episodes', of_other_show)
                        = SelectSeq(unwatched_episodes, of_other_show)]_vars

\* The next episode of Star Trek: Discovery has been marked and has
\* collapsed into its pointer, while The Orville has no episode behind its
\* pointer, its first episode not watched and a later one kept as watched.
C32_Witness ==
    /\ last.op = "mark_as_watched" /\ last.given = <<FALSE, FALSE>>
    /\ last.ret = Some(<<1, 1>>)
    /\ Len(subscribed_shows) = 2
    /\ PointerIn(subscribed_shows, StarTrekDiscoveryId) = <<1, 1>>
    /\ EpisodesOf(unwatched_episodes, StarTrekDiscoveryId) = {}
    /\ PointerIn(subscribed_shows, TheOrvilleId) = <<0, 0>>
    /\ \E e \in EpisodesOf(unwatched_episodes, TheOrvilleId) :
          Number(e) = <<1, 1>> /\ ~e.watched
    /\ \E e \in EpisodesOf(unwatched_episodes, TheOrvilleId) : e.watched

(***************************************************************************)
(* C33.  A mark_as_watched call that returns None leaves the shows and the *)
(* episodes exactly as they were; and a mark of a season, or of an episode *)
(* of a season, that returned a number returns None and changes nothing    *)
(* when it is called again with the same arguments right away, whether the *)
(* first call moved the pointer or left records flagged watched.           *)
(***************************************************************************)
C33_NothingMarkedNothingChanged ==
    [][IsMark =>
        /\ last'.ret = None =>
              /\ subscribed_shows' = subscribed_shows
              /\ unwatched_episodes' = unwatched_episodes
        /\ (last'.ret # None /\ last'.given[1]) =>
              \A show_id \in ShowIds : \A a \in MarkArguments :
                  last'.given = <<a[1] # None, a[2] # None>> =>
                      \A r \in {mark_as_watched(subscribed_shows,
                                    unwatched_episodes, show_id, a[1], a[2])} :
                          (/\ last'.ret = r.ret
                           /\ subscribed_shows' = r.shows
                           /\ unwatched_episodes' = r.eps) =>
                              mark_as_watched(subscribed_shows',
                                    unwatched_episodes', show_id, a[1], a[2])
                                  = [shows |-> subscribed_shows',
                                     eps |-> unwatched_episodes',
                                     ret |-> None]]_vars

\* A mark of an episode of a season has returned None while the list holds
\* the first episode not watched, behind it an episode kept as watched, and
\* the pointer has not moved yet.
C33_Witness ==
    /\ last.op = "mark_as_watched" /\ last.given = <<TRUE, TRUE>>
    /\ last.ret = None
    /\ IsSubscribed(subscribed_shows, TheOrvilleId)
    /\ PointerIn(subscribed_shows, TheOrvilleId) = <<0, 0>>
    /\ \E e \in EpisodesOf(unwatched_episodes, TheOrvilleId) :
          Number(e) = <<1, 1>> /\ ~e.watched
    /\ \E e \in EpisodesOf(unwatched_episodes, TheOrvilleId) :
          Number(e) = <<1, MaxNumber>> /\ e.watched

(***************************************************************************)
(* C34.  update_show(show) returns true exactly when a show with that id   *)
(* is subscribed and its stored last_updated differs from the one handed   *)
(* in; after the call a subscribed show with that id has the status and    *)
(* the last_updated handed in; and when no show with that id is subscribed *)
(* the call returns false and changes nothing.                             *)
(***************************************************************************)
C34_UpdateShow ==
    [][last'.op = "update_show" =>
        \A show \in ShowRevisions :
            UpdateShow(show) =>
                LET stored == {s \in Range(subscribed_shows) : s.id = show.id}
                IN  /\ last'.ret = Some(TRUE)
                          <=> \E s \in stored :
                                  s.last_updated # show.last_updated
                    /\ \A s \in Range(subscribed_shows') :
                          s.id = show.id =>
                              /\ s.status = show.status
                              /\ s.last_updated = show.last_updated
                    /\ stored = {} =>
                          /\ last'.ret = Some(FALSE)
                          /\ subscribed_shows' = subscribed_shows]_vars

\* update_show has returned true with both shows subscribed: one show has
\* the marker and the status handed in, the other those it was added with.
C34_Witness ==
    /\ last.op = "update_show" /\ last.ret = Some(TRUE)
    /\ Len(subscribed_shows) = 2
    /\ \E s, t \in Range(subscribed_shows) :
          /\ s.last_updated = MaxUpdated /\ s.status = "Ended"
          /\ t.last_updated = 0 /\ t.status = "Running"

(***************************************************************************)
(* C35.  update_show and update_episode change no watch pointer, no        *)
(* watched flag, no show id of an episode and no identity in either        *)
(* vector: the shows keep their ids and pointers, the episodes their       *)
(* identities and flags, position by position; and the only record that    *)
(* differs after the call is the one the call located.                     *)
(***************************************************************************)
C35_UpdatesKeepProgress ==
    [][last'.op \in {"update_show", "update_episode"} =>
        /\ [i \in 1..Len(subscribed_shows') |->
                <<subscribed_shows'[i].id,
                  subscribed_shows'[i].last_watched_episode>>]
              = [i \in 1..Len(subscribed_shows) |->
                    <<subscribed_shows[i].id,
                      subscribed_shows[i].last_watched_episode>>]
        /\ [i \in 1..Len(unwatched_episodes') |->
                <<Identity(unwatched_episodes'[i]),
                  unwatched_episodes'[i].watched>>]
              = [i \in 1..Len(unwatched_episodes) |->
                    <<Identity(unwatched_episodes[i]),
                      unwatched_episodes[i].watched>>]
        /\ last'.op = "update_show" =>
              /\ unwatched_episodes' = unwatched_episodes
              /\ \A show \in ServedRevisions :
                  \A r \in {update_show(subscribed_shows, show)} :
                    (/\ last'.ret = Some(r.ret)
                     /\ subscribed_shows' = r.shows) =>
                        \A i \in 1..Len(subscribed_shows) :
                            subscribed_shows'[i] # subscribed_shows[i] =>
                                /\ subscribed_shows[i].id = show.id
                                /\ \A j \in 1..(i - 1) :
                                      subscribed_shows[j].id # show.id
        /\ last'.op = "update_episode" =>
              /\ subscribed_shows' = subscribed_shows
              /\ \A episode \in Episodes :
                  \A r \in {update_episode(unwatched_episodes, episode)} :
                    (/\ last'.ret = Some(r.ret)
                     /\ unwatched_episodes' = r.eps) =>
                        \A i \in 1..Len(unwatched_episodes) :
                            unwatched_episodes'[i] # unwatched_episodes[i] =>
                                /\ unwatched_episodes[i].episode_id
                                      = episode.episode_id
                                /\ \A j \in 1..(i - 1) :
                                      unwatched_episodes[j].episode_id
                                          # episode.episode_id]_vars

\* update_episode has renumbered the second episode of The Orville while
\* the pointer of the show was on (1, 1) and an episode was kept as watched.
C35_Witness ==
    /\ last.op = "update_episode" /\ last.ret = Some(TRUE)
    /\ IsSubscribed(subscribed_shows, TheOrvilleId)
    /\ PointerIn(subscribed_shows, TheOrvilleId) = <<1, 1>>
    /\ \E e \in Range(unwatched_episodes) : e.watched
    /\ \E e \in Range(unwatched_episodes) :
          /\ Identity(e) = Identity(Episode(TheOrvilleId, 1, 2))
          /\ Number(e) = <<1, 1>>

(***************************************************************************)
(* C36.  update_episode(episode) returns true exactly when the list holds  *)
(* an episode with the episode id and the show id of the one handed in,    *)
(* and the only record it changes has that episode id and that show id: an *)
(* episode of one show does not overwrite an episode of another show.      *)
(***************************************************************************)
C36_UpdateEpisodeByIdentity ==
    [][last'.op = "update_episode" =>
        \A episode \in EpisodesByIdentity :
        \A r \in {update_episode(unwatched_episodes, episode)} :
            (/\ last'.ret = Some(r.ret)
             /\ unwatched_episodes' = r.eps) =>
                /\ r.ret <=> contains_episode(unwatched_episodes, episode)
                /\ \A i \in 1..Len(unwatched_episodes) :
                      unwatched_episodes'[i] # unwatched_episodes[i] =>
                          episode_eq(unwatched_episodes[i], episode)]_vars

(***************************************************************************)
(* C37.  An update whose fetch of the shows succeeds asks for the episodes *)
(* of exactly the subscribed shows whose stored marker differs from the    *)
(* served one, or of every subscribed show with --force.  When there is    *)
(* none, it asks for nothing: it returns Ok and stores even if the catalog *)
(* would fail, and the episodes are as loaded.  When there is one and the  *)
(* catalog fails, it returns the error.  When the catalog answers, every   *)
(* served episode of such a show that has aired and lies after the pointer *)
(* is in the list as served, and the episodes of the other shows are as    *)
(* loaded.                                                                 *)
(***************************************************************************)
C37_FetchesChangedShows ==
    \A in \in UpdateInputs({"ok"}) : \A now \in Times :
        (in.shows_ok /\ now >= last.now) =>
            \A d \in {user_data} :
            \A r \in {App_update(d.subscribed_shows, d.unwatched_episodes,
                                files, in.force, in.shows_ok, in.updated,
                                in.fetched, now, in.outcome)} :
                LET requested ==
                        {show.id : show \in
                            {x \in Range(d.subscribed_shows) :
                                in.force \/ x.last_updated # in.updated}}
                IN  /\ requested = {} =>
                          /\ r.ret = Ok(<<>>)
                          /\ d.subscribed_shows # <<>> => r.stored = "ok"
                          /\ r.eps = d.unwatched_episodes
                    /\ (requested # {} /\ ~in.fetched.ok) =>
                          r.ret.tag = "Err" /\ r.stored = "none"
                    /\ (requested # {} /\ in.fetched.ok) =>
                          /\ r.ret = Ok(<<>>)
                          /\ \A id \in requested :
                             \A e \in Range(concat_episodes(<<id>>,
                                                in.fetched.revision)) :
                                (/\ has_aired(e, now)
                                 /\ is_after(e, PointerIn(d.subscribed_shows,
                                                          id))) =>
                                    \E f \in Range(r.eps) :
                                        /\ Identity(f) = Identity(e)
                                        /\ Number(f) = Number(e)
                                        /\ f.airstamp = e.airstamp
                          /\ \A id \in ShowIds \ requested :
                                EpisodesOf(r.eps, id)
                                    = EpisodesOf(d.unwatched_episodes, id)

\* An update has run late, both shows subscribed, the pointers at the
\* start: the episode of Star Trek: Discovery is in the list and the last
\* episode of The Orville, which has aired, is not: the marker of The
\* Orville had not changed and its episodes were not asked for.
C37_Witness ==
    /\ last.op = "update" /\ last.stored = "ok"
    /\ \A t \in Times : t <= last.now
    /\ Len(subscribed_shows) = 2
    /\ \A s \in Range(subscribed_shows) :
          s.last_updated = MaxUpdated /\ s.last_watched_episode = <<0, 0>>
    /\ EpisodesOf(unwatched_episodes, StarTrekDiscoveryId) # {}
    /\ \A e \in Range(unwatched_episodes) :
          ~e.watched /\ Identity(e) # LastEpisode

(***************************************************************************)
(* Vocabulary of the orderings of the shows.                               *)
(***************************************************************************)
\* Every Running show and every show to be determined stands before every
\* show of another status.
RunningFirst(shows) ==
    \A i, j \in 1..Len(shows) :
        (/\ shows[i].status \in {"Running", "ToBeDetermined"}
         /\ shows[j].status \notin {"Running", "ToBeDetermined"}) => i < j
SortedById(shows) ==
    \A i, j \in 1..Len(shows) : i < j => shows[i].id < shows[j].id
AddShowInserted ==
    /\ last'.op = "add_show"
    /\ Len(subscribed_shows') = Len(subscribed_shows) + 1

(***************************************************************************)
(* C38, as stated.  After add_show has inserted a show, every Running show *)
(* and every show to be determined stands before every show of another     *)
(* status in the stored vector.                                            *)
(***************************************************************************)
C38_StoredRunningFirst ==
    [][AddShowInserted => RunningFirst(subscribed_shows')]_vars

(***************************************************************************)
(* C38, amended.  After add_show has inserted a show, the stored vector is *)
(* in ascending order of the ids, whatever the statuses; the order in      *)
(* which every Running show and every show to be determined stands before  *)
(* the others is that of the vector subscribed_shows_by_most_recent        *)
(* returns, which holds the stored shows and leaves the stored vector as   *)
(* it is.                                                                  *)
(***************************************************************************)
C38_ListingRunningFirst ==
    [][AddShowInserted =>
        LET listing == subscribed_shows_by_most_recent(subscribed_shows')
        IN  /\ SortedById(subscribed_shows')
            /\ RunningFirst(listing)
            /\ Len(listing) = Len(subscribed_shows')
            /\ Range(listing) = Range(subscribed_shows')]_vars

\* add_show has made The Orville, Running, the second of two shows, behind
\* Star Trek: Discovery, which has ended: the stored vector is in the order
\* of the ids and not in the order of the listing.
C38_Witness ==
    /\ last.op = "add_show"
    /\ Len(subscribed_shows) = 2
    /\ subscribed_shows[1].status = "Ended"
    /\ subscribed_shows[2].status = "Running"
    /\ subscribed_shows_by_most_recent(subscribed_shows)
            = <<subscribed_shows[2], subscribed_shows[1]>>

(***************************************************************************)
(* C39.  After add_show, remove_show and update_show calls in any order    *)
(* the stored vector of shows is in strictly ascending order of the ids,   *)
(* in whatever order the shows were added.                                 *)
(***************************************************************************)
C39_ShowsSortedById == SortedById(subscribed_shows)

\* add_show has inserted a show while the other show was stored as updated
\* and ended: both shows are stored, Star Trek: Discovery first.
C39_Witness ==
    /\ last.op = "add_show"
    /\ Len(subscribed_shows) = 2
    /\ subscribed_shows[1].id = StarTrekDiscoveryId
    /\ subscribed_shows[2].id = TheOrvilleId
    /\ subscribed_shows[2].status = "Ended"
    /\ subscribed_shows[2].last_updated = MaxUpdated
    /\ subscribed_shows[1].last_updated = 0

(***************************************************************************)
(* C40.  In the vector unwatched_episodes_oldest_first returns, ordered as *)
(* update orders the episodes it inserts, the air times ascend and every   *)
(* episode without an air time stands behind every episode that has one.   *)
(***************************************************************************)
C40_OldestFirstUnknownLast ==
    last.op = "unwatched_episodes_oldest_first" =>
        LET listing == last.ret[1]
        IN  \A i, j \in 1..Len(listing) :
                i < j =>
                    /\ listing[i].airstamp = None
                          => listing[j].airstamp = None
                    /\ (listing[i].airstamp # None
                            /\ listing[j].airstamp # None)
                          => listing[i].airstamp[1] <= listing[j].airstamp[1]

====
